---- MODULE Spec2Model ----
(***************************************************************************)
(* Model of vantage's recency feed and live-change notifier:               *)
(*   - services/socket_manager.py : ConnectionManager (observer set)       *)
(*   - routers/socket.py          : websocket_endpoint (observer lifetime) *)
(*   - services/watcher.py        : watch_repo, _coalesce_and_broadcast    *)
(*   - services/git_service.py    : get_recently_changed_files + TTL cache *)
(* Time is counted in quarter seconds.                                     *)
(***************************************************************************)
EXTENDS Integers, Sequences, FiniteSets, TLC

VARIABLES
    \* ---- ConnectionManager / websocket_endpoint ----
    active_connections,  \* manager.active_connections: list of websockets
    handler,             \* per websocket: position of websocket_endpoint
    bc,                  \* the broadcast() coroutine in flight (its locals)
    \* history of the latest broadcast, kept only while bcTrace holds:
    bcTrace,
    bcStart,             \* observers in the list when it began
    bcAttempts,          \* send_json calls per observer
    bcFailed,            \* observers whose send_json raised
    bcLeft,              \* observers removed by disconnect() while it ran
    \* ---- watch_repo ----
    pending,             \* pending: set of relative paths
    batch_elapsed,       \* loop.time() - batch_start; None when batch_start is None
    quiet_task,          \* quiet_task: the _delayed_flush task and its remaining sleep
    main,                \* the watch loop: in awatch, or awaiting flush()
    burst,               \* history: the current run of relevant events
    oldest,              \* history: time since the earliest relevant event not yet notified
    \* ---- watch_multi_repo (with batch_elapsed, quiet_task and main) ----
    mpending,            \* pending: dict repo_name -> set of paths, in insertion order
    snapshot,            \* flush(): the items of snapshot its loop has yet to take
    flushed,             \* history: the snapshot the latest flush() took
    emitted,             \* history: the messages the latest flush() handed to broadcast
    \* ---- git_service.py ----
    cache,               \* _recent_files_cache: key -> (age of ts, data)
    staleKeys,           \* history: cache keys stored before the last flush
    gitdirs,             \* the directories that hold a .git entry
    files,               \* the files on disk with their mtime and git status
    exclude_dirs,        \* GitService.exclude_dirs, as configured
    last,                \* history: the latest get_recently_changed_files call
    \* ---- the other entry points ----
    call                 \* one call of a function: its name, arguments and return value

bvars == <<active_connections, handler, bc, bcTrace, bcStart, bcAttempts, bcFailed,
          bcLeft>>
mvars == <<mpending, snapshot, flushed, emitted>>
wvars == <<pending, batch_elapsed, quiet_task, main, burst, oldest, mvars>>
world == <<gitdirs, files, exclude_dirs, last, call>>
avars == <<cache, staleKeys, world>>

vars == <<bvars, wvars, avars>>

-----------------------------------------------------------------------------
\* Bounds of the model.
NumObservers == 3
NumWatchObservers == 1
MaxElapsed == 16
MaxChanges == 1
MaxMtime == 21
MaxLimit == 3
MaxParts == 3
MaxCommits == 3

Observers == 1..NumObservers

-----------------------------------------------------------------------------
\* Sequence helpers (Python list semantics).

\* list.remove(x): drop the first occurrence; ValueError when absent
\* (both callers swallow it), i.e. the list is left as it is.
RECURSIVE ListRemove(_, _)
ListRemove(s, x) ==
    IF s = <<>> THEN <<>>
    ELSE IF Head(s) = x THEN Tail(s)
    ELSE <<Head(s)>> \o ListRemove(Tail(s), x)

RECURSIVE RemoveAll(_, _)
RemoveAll(s, dead) ==
    IF dead = <<>> THEN s
    ELSE RemoveAll(ListRemove(s, Head(dead)), Tail(dead))

Range(s) == {s[i] : i \in 1..Len(s)}

-----------------------------------------------------------------------------
\* Strings are sequences of character codes, so that lower(), endswith(),
\* split() and the ordering of str act as they do in Python.

\* str.lower() on ASCII.
Lower(s) == [i \in 1..Len(s) |-> IF s[i] \in 65..90 THEN s[i] + 32 ELSE s[i]]

\* str.endswith(suffix) / str.startswith(prefix)
EndsWith(s, suf) ==
    /\ Len(s) >= Len(suf)
    /\ SubSeq(s, Len(s) - Len(suf) + 1, Len(s)) = suf

StartsWith(s, pre) ==
    /\ Len(s) >= Len(pre)
    /\ SubSeq(s, 1, Len(pre)) = pre

\* str.replace(one character by another)
ReplaceChar(s, old, new) == [i \in 1..Len(s) |-> IF s[i] = old THEN new ELSE s[i]]

\* str.split(sep) for a one-character separator.
RECURSIVE SplitAcc(_, _, _)
SplitAcc(s, sep, cur) ==
    IF s = <<>> THEN <<cur>>
    ELSE IF Head(s) = sep THEN <<cur>> \o SplitAcc(Tail(s), sep, <<>>)
    ELSE SplitAcc(Tail(s), sep, Append(cur, Head(s)))

Split(s, sep) == SplitAcc(s, sep, <<>>)

\* a < b for str: lexicographic by code point, a proper prefix is smaller.
RECURSIVE StrLess(_, _)
StrLess(a, b) ==
    IF b = <<>> THEN FALSE
    ELSE IF a = <<>> THEN TRUE
    ELSE IF Head(a) # Head(b) THEN Head(a) < Head(b)
    ELSE StrLess(Tail(a), Tail(b))

\* sorted(set of str): ascending.
RECURSIVE SortedStrs(_)
SortedStrs(S) ==
    IF S = {} THEN <<>>
    ELSE LET m == CHOOSE x \in S : \A y \in S \ {x} : StrLess(x, y)
         IN  <<m>> \o SortedStrs(S \ {m})

\* Python's None, where the code holds "a float or None".
None == -1

-----------------------------------------------------------------------------
\* String constants of the program and the paths of the model's files.
DOTMD == <<46, 109, 100>>
DOTGIT == <<46, 103, 105, 116>>
STR_index == <<105, 110, 100, 101, 120>>
STR_HEAD == <<72, 69, 65, 68>>
STR_MERGE_HEAD == <<77, 69, 82, 71, 69, 95, 72, 69, 65, 68>>
STR_REBASE_HEAD == <<82, 69, 66, 65, 83, 69, 95, 72, 69, 65, 68>>
STR_CHERRY_PICK_HEAD == <<67, 72, 69, 82, 82, 89, 95, 80, 73, 67, 75, 95, 72, 69, 65, 68>>

\* "a.md", "docs/B.MD", ".git/index", "notes.txt"
P_a == <<97, 46, 109, 100>>
P_docsB == <<100, 111, 99, 115, 47, 66, 46, 77, 68>>
P_gitindex == <<46, 103, 105, 116, 47, 105, 110, 100, 101, 120>>
P_notes == <<110, 111, 116, 101, 115, 46, 116, 120, 116>>

-----------------------------------------------------------------------------
\* ConnectionManager.broadcast

NoMessage == [type |-> "none", paths |-> <<>>]

NoBroadcast == [state |-> "idle", idx |-> 0, cur |-> 0, dead |-> <<>>,
                sent |-> 0, msg |-> NoMessage, owner |-> "none"]

ZeroAttempts == [o \in Observers |-> 0]

\* The for-loop's iterator fetches position idx+1 of the LIVE list.
IterHasNext(conns, idx) == idx < Len(conns)

\* broadcast() from its entry to its first await (send_json to the first
\* connection), or to its early return when nobody is connected.
BroadcastBegin(msg, owner) ==
    /\ bcStart' = IF bcTrace THEN Range(active_connections) ELSE {}
    /\ bcFailed' = {}
    /\ bcLeft' = {}
    /\ IF active_connections = <<>>
       THEN /\ bc' = [NoBroadcast EXCEPT !.state = "skipped"]
            /\ bcAttempts' = ZeroAttempts
       ELSE /\ bc' = [state |-> "sending", idx |-> 1,
                      cur |-> active_connections[1], dead |-> <<>>,
                      sent |-> 0, msg |-> msg, owner |-> owner]
            /\ bcAttempts' = IF bcTrace
                             THEN [ZeroAttempts EXCEPT ![active_connections[1]] = 1]
                             ELSE ZeroAttempts
    /\ UNCHANGED <<active_connections, handler, bcTrace>>

\* One pending send_json completes (ok) or raises Exception (~ok); the loop
\* then either fetches the next connection and suspends in its send_json, or
\* ends and prunes the dead connections.
BroadcastStepEffect(ok) ==
    LET dead1 == IF ok THEN bc.dead ELSE Append(bc.dead, bc.cur)
        sent1 == IF ok THEN bc.sent + 1 ELSE bc.sent
    IN  /\ bcFailed' = IF ok \/ ~bcTrace THEN bcFailed ELSE bcFailed \cup {bc.cur}
        /\ IF IterHasNext(active_connections, bc.idx)
           THEN /\ bc' = [bc EXCEPT !.idx = bc.idx + 1,
                                    !.cur = active_connections[bc.idx + 1],
                                    !.dead = dead1, !.sent = sent1]
                /\ bcAttempts' = IF bcTrace
                                 THEN [bcAttempts EXCEPT
                                         ![active_connections[bc.idx + 1]] = @ + 1]
                                 ELSE bcAttempts
                /\ UNCHANGED active_connections
           ELSE /\ bc' = [NoBroadcast EXCEPT !.state = "done"]
                /\ active_connections' = RemoveAll(active_connections, dead1)
                /\ UNCHANGED bcAttempts
        /\ UNCHANGED <<handler, bcTrace, bcStart, bcLeft>>

-----------------------------------------------------------------------------
\* websocket_endpoint / ConnectionManager.connect / disconnect

\* Origin check: a non-localhost origin is closed and never registered.
HandlerOrigin(o, originOk) ==
    /\ handler[o] = "new"
    /\ handler' = [handler EXCEPT ![o] = IF originOk THEN "accept" ELSE "rejected"]
    /\ UNCHANGED <<active_connections, bc, bcTrace, bcStart, bcAttempts, bcFailed,
                   bcLeft>>

\* manager.connect: websocket.accept() returned (append) or raised.
HandlerAccept(o, ok) ==
    /\ handler[o] = "accept"
    /\ IF ok
       THEN /\ active_connections' = Append(active_connections, o)
            /\ handler' = [handler EXCEPT ![o] = "hello"]
       ELSE /\ handler' = [handler EXCEPT ![o] = "closed"]
            /\ UNCHANGED active_connections
    /\ UNCHANGED <<bc, bcTrace, bcStart, bcAttempts, bcFailed, bcLeft>>

\* The hello send_json is outside the try block: when it raises, the
\* handler ends without calling disconnect.
HandlerHello(o, ok) ==
    /\ handler[o] = "hello"
    /\ handler' = [handler EXCEPT ![o] = IF ok THEN "recv" ELSE "closed"]
    /\ UNCHANGED <<active_connections, bc, bcTrace, bcStart, bcAttempts, bcFailed,
                   bcLeft>>

\* receive_text raised (WebSocketDisconnect or another Exception):
\* manager.disconnect(websocket).
HandlerDisconnect(o) ==
    /\ handler[o] = "recv"
    /\ handler' = [handler EXCEPT ![o] = "closed"]
    /\ active_connections' = ListRemove(active_connections, o)
    /\ bcLeft' = IF bc.state = "sending" /\ bcTrace THEN bcLeft \cup {o} ELSE bcLeft
    /\ UNCHANGED <<bc, bcTrace, bcStart, bcAttempts, bcFailed>>

-----------------------------------------------------------------------------
\* services/git_service.py: the world it reads.

\* "top.md", "A/a.md", "B/b.MD", "dist/d.md", "A/n.txt", and the
\* directories "A" and "B"; the served root is the empty path.
F_top == <<116, 111, 112, 46, 109, 100>>
F_Aa == <<65, 47, 97, 46, 109, 100>>
F_Bb == <<66, 47, 98, 46, 77, 68>>
F_dist == <<100, 105, 115, 116, 47, 100, 46, 109, 100>>
F_An == <<65, 47, 110, 46, 116, 120, 116>>
D_A == <<65>>
D_B == <<66>>
ROOT == <<>>

\* The files of the model, in the order in which directory listings, the
\* index and the log name them.
FilePath == <<F_top, F_Aa, F_Bb, F_dist, F_An>>
FileIds == 1..Len(FilePath)
AllFiles == [i \in FileIds |-> i]

\* config.py: DEFAULT_EXCLUDE_DIRS
\* .git .hg .svn node_modules .venv venv __pycache__ .pytest_cache
\* .mypy_cache .ruff_cache .egg-info .tox .nox dist build .cache
DEFAULT_EXCLUDE_DIRS ==
    {<<46, 103, 105, 116>>,
     <<46, 104, 103>>,
     <<46, 115, 118, 110>>,
     <<110, 111, 100, 101, 95, 109, 111, 100, 117, 108, 101, 115>>,
     <<46, 118, 101, 110, 118>>,
     <<118, 101, 110, 118>>,
     <<95, 95, 112, 121, 99, 97, 99, 104, 101, 95, 95>>,
     <<46, 112, 121, 116, 101, 115, 116, 95, 99, 97, 99, 104, 101>>,
     <<46, 109, 121, 112, 121, 95, 99, 97, 99, 104, 101>>,
     <<46, 114, 117, 102, 102, 95, 99, 97, 99, 104, 101>>,
     <<46, 101, 103, 103, 45, 105, 110, 102, 111>>,
     <<46, 116, 111, 120>>,
     <<46, 110, 111, 120>>,
     <<100, 105, 115, 116>>,
     <<98, 117, 105, 108, 100>>,
     <<46, 99, 97, 99, 104, 101>>}

\* A configured exclude_dirs list: ["B"].
CUSTOM_EXCLUDE_DIRS == {<<66>>}

\* The configurations of the model.
ExcludeConfigs == {DEFAULT_EXCLUDE_DIRS, CUSTOM_EXCLUDE_DIRS}

\* extensions = [".md"] when the caller passes none (every caller).
DEFAULT_EXTENSIONS == <<DOTMD>>

\* Path arithmetic on paths relative to the served root.
Join(dir, rel) == IF dir = ROOT THEN rel ELSE dir \o <<47>> \o rel

\* Path.relative_to raises ValueError when the path is not below base.
IsBelow(path, base) == base = ROOT \/ StartsWith(path, base \o <<47>>)

RelativeTo(path, base) ==
    IF base = ROOT THEN path ELSE SubSeq(path, Len(base) + 2, Len(path))

\* The components of a relative path: all, and all but the file name.
Parts(path) == Split(path, 47)
DirParts(path) == SubSeq(Parts(path), 1, Len(Parts(path)) - 1)

\* The repository that owns a file: the nearest directory above it that
\* holds a .git entry.
NoRepo == <<0>>
TopDir(path) == IF Len(Parts(path)) >= 2 THEN Parts(path)[1] ELSE ROOT
TopDirOf == [f \in FileIds |-> TopDir(FilePath[f])]

Owner(f) ==
    IF TopDirOf[f] # ROOT /\ TopDirOf[f] \in gitdirs
    THEN TopDirOf[f]
    ELSE IF ROOT \in gitdirs THEN ROOT ELSE NoRepo

\* Repo(repo_path, search_parent_directories=True).working_dir
WorkingDir(repo_path) ==
    IF repo_path \in gitdirs THEN repo_path
    ELSE IF ROOT \in gitdirs THEN ROOT ELSE NoRepo

\* git ls-files in working_dir: the index entries, relative to it.
LsFiles(wd) ==
    {RelativeTo(FilePath[f], wd) : f \in {g \in FileIds : Owner(g) = wd /\ files[g].index}}

\* git status --porcelain=v1 -uno: the " A" lines, as _find_intent_to_add_files
\* resolves them (absolute, here relative to the served root).
FindIntentToAddFiles(wd, status_ok) ==
    IF wd = NoRepo \/ ~status_ok THEN <<>>
    ELSE SelectSeq(AllFiles, LAMBDA f : Owner(f) = wd /\ files[f].ita)

\* Commits of the log, newest first; each names every file with history.
\* ts is the authoring time, on the scale of the mtimes.
Commits == <<[hexsha |-> "c2", author_name |-> "dev", message |-> "second", ts |-> MaxMtime - 2],
             [hexsha |-> "c1", author_name |-> "", message |-> "first", ts |-> MaxMtime - 2]>>

\* Every repository has a history of its own.
CommitsOf(wd) ==
    CASE wd = D_A -> <<[hexsha |-> "a2", author_name |-> "ann", message |-> "A second",
                       ts |-> MaxMtime - 2],
                       [hexsha |-> "a1", author_name |-> "", message |-> "A first",
                       ts |-> MaxMtime - 2]>>
      [] wd = D_B -> <<[hexsha |-> "b2", author_name |-> "bob", message |-> "B second",
                       ts |-> MaxMtime - 2],
                       [hexsha |-> "b1", author_name |-> "", message |-> "B first",
                       ts |-> MaxMtime - 2]>>
      [] OTHER -> Commits

\* The output of git log --name-only: a sequence of (commit, file, its path
\* in working_dir).
LogOutput(wd) ==
    LET logged == SelectSeq(AllFiles, LAMBDA f : Owner(f) = wd /\ files[f].log)
        lines(c) == [i \in 1..Len(logged) |->
                       [info |-> CommitsOf(wd)[c], file |-> logged[i],
                        file_path |-> RelativeTo(FilePath[logged[i]], wd)]]
    IN  lines(1) \o lines(2)

\* Stand-in for _git_log: the output is read whether or not the command
\* succeeded.
UncheckedLog(wd, log_ok) == LogOutput(wd)

\* _git_log: the output of the command, "" when it fails.
GitLog(wd, log_ok) == IF ~log_ok THEN <<>> ELSE LogOutput(wd)

-----------------------------------------------------------------------------
\* datetime.fromtimestamp(mtime).isoformat()

\* "%0<w>d" % n
RECURSIVE Pad(_, _)
Pad(n, w) == IF w = 0 THEN <<>> ELSE Pad(n \div 10, w - 1) \o <<48 + (n % 10)>>

\* mtime counts half seconds from local midnight of 2024-01-01.
FromTimestamp(mtime) ==
    LET secs == mtime \div 2
    IN  [year |-> 2024, month |-> 1, day |-> 1 + secs \div 86400,
         hour |-> (secs \div 3600) % 24, minute |-> (secs \div 60) % 60,
         second |-> secs % 60, microsecond |-> (mtime % 2) * 500000]

\* YYYY-MM-DDTHH:MM:SS, followed by .ffffff unless microsecond is 0.
IsoFormat(dt) ==
    Pad(dt.year, 4) \o <<45>> \o Pad(dt.month, 2) \o <<45>> \o Pad(dt.day, 2)
    \o <<84>> \o Pad(dt.hour, 2) \o <<58>> \o Pad(dt.minute, 2) \o <<58>>
    \o Pad(dt.second, 2)
    \o (IF dt.microsecond = 0 THEN <<>> ELSE <<46>> \o Pad(dt.microsecond, 6))

\* The instant a date string denotes (datetime.fromisoformat), as the tuple
\* of its fields; tuples of equal length compare like the instants.
RECURSIVE Num(_)
Num(digits) ==
    IF digits = <<>> THEN 0
    ELSE 10 * Num(SubSeq(digits, 1, Len(digits) - 1)) + (digits[Len(digits)] - 48)

FromIsoFormat(s) ==
    <<Num(SubSeq(s, 1, 4)), Num(SubSeq(s, 6, 7)), Num(SubSeq(s, 9, 10)),
      Num(SubSeq(s, 12, 13)), Num(SubSeq(s, 15, 16)), Num(SubSeq(s, 18, 19)),
      IF Len(s) > 19 THEN Num(SubSeq(s, 21, Len(s))) ELSE 0>>

-----------------------------------------------------------------------------
\* services/git_service.py: GitService

\* The date strings of the mtimes of the model.
DateOf == [mtime \in (MaxMtime - 2)..MaxMtime |-> IsoFormat(FromTimestamp(mtime))]

UntrackedRecord(path, mtime) ==
    [path |-> path, date |-> DateOf[mtime],
     author_name |-> "", message |-> "", hexsha |-> "", untracked |-> TRUE]

\* Stand-in for the record of the log pass: dated with the authoring time.
AuthoredRecord(path, mtime, info) ==
    [path |-> path, date |-> DateOf[info.ts],
     author_name |-> IF info.author_name = "" THEN "Unknown" ELSE info.author_name,
     message |-> info.message, hexsha |-> info.hexsha, untracked |-> FALSE]

TrackedRecord(path, mtime, info) ==
    [path |-> path, date |-> DateOf[mtime],
     author_name |-> IF info.author_name = "" THEN "Unknown" ELSE info.author_name,
     message |-> info.message, hexsha |-> info.hexsha, untracked |-> FALSE]

\* _matches_ext(name)
MatchesExt(name, extensions) ==
    \E i \in 1..Len(extensions) : EndsWith(Lower(name), Lower(extensions[i]))

\* Stand-in for should_skip: nothing is skipped.
NeverSkip(path, exclude) == FALSE

\* should_skip(path): any component, the file name included, is excluded.
ShouldSkip(path, exclude) ==
    \E i \in 1..Len(Parts(path)) : Parts(path)[i] \in exclude

\* any(p.startswith(".") for p in parts[:-1])
UnderHiddenDir(path) ==
    \E i \in 1..Len(DirParts(path)) : StartsWith(DirParts(path)[i], <<46>>)

\* The directory filter of the scans and walks: no directory on the way
\* to the file is hidden or excluded.
WalkReaches(rel, exclude) ==
    \A i \in 1..Len(DirParts(rel)) :
        /\ ~StartsWith(DirParts(rel)[i], <<46>>)
        /\ DirParts(rel)[i] \notin exclude

\* What these tests say of each file as seen from each repo_path, with the
\* default extensions and an exclude_dirs configuration.
RepoPaths == {ROOT, D_A, D_B}

Seen(f, repo_path, exclude) ==
    LET rel == RelativeTo(FilePath[f], repo_path)
    IN  [below |-> IsBelow(FilePath[f], repo_path),
         rel |-> rel,
         matches |-> MatchesExt(rel, DEFAULT_EXTENSIONS),
         md |-> EndsWith(Lower(rel), DOTMD),
         skip |-> ShouldSkip(rel, exclude),
         hidden |-> UnderHiddenDir(rel),
         reaches |-> WalkReaches(rel, exclude),
         top |-> TopDir(rel)]

SeenFrom ==
    [exclude \in ExcludeConfigs |->
        [repo_path \in RepoPaths |-> [f \in FileIds |-> Seen(f, repo_path, exclude)]]]

\* results.sort(key=lambda r: r["date"], reverse=True): stable, so records
\* of equal date keep their order.
RECURSIVE InsertByDate(_, _)
InsertByDate(sorted, r) ==
    IF sorted = <<>> THEN <<r>>
    ELSE IF StrLess(Head(sorted).date, r.date) THEN <<r>> \o sorted
    ELSE <<Head(sorted)>> \o InsertByDate(Tail(sorted), r)

\* Mutant: the results are left in the order of their discovery.
Unsorted(rs) == rs

RECURSIVE SortByDateDesc(_)
SortByDateDesc(rs) ==
    IF rs = <<>> THEN <<>>
    ELSE InsertByDate(SortByDateDesc(SubSeq(rs, 1, Len(rs) - 1)), rs[Len(rs)])

\* results[:limit], a negative limit counting from the end.
Slice(rs, limit) ==
    LET stop == IF limit >= 0
                THEN (IF limit < Len(rs) THEN limit ELSE Len(rs))
                ELSE (IF Len(rs) + limit > 0 THEN Len(rs) + limit ELSE 0)
    IN  SubSeq(rs, 1, stop)

\* Mutant: seen_paths is never consulted.
NeverSeen(path, seen_paths) == FALSE

\* "if rel_path in seen_paths: continue"
SeenBefore(path, seen_paths) == path \in seen_paths

\* Appends the candidates whose path was not seen yet; acc holds results and
\* seen_paths.
RECURSIVE MergeNew(_, _)
MergeNew(acc, cands) ==
    IF cands = <<>> THEN acc
    ELSE IF SeenBefore(Head(cands).path, acc.seen_paths)
    THEN MergeNew(acc, Tail(cands))
    ELSE MergeNew([results |-> Append(acc.results, Head(cands)),
                   seen_paths |-> acc.seen_paths \cup {Head(cands).path}],
                  Tail(cands))

PathsOf(rs) == [i \in 1..Len(rs) |-> rs[i].path]

\* _build_tracked_set
BuildTrackedSet(repo_path, ls_ok) ==
    LET wd == WorkingDir(repo_path)
    IN  IF wd = NoRepo \/ ~ls_ok THEN {}
        ELSE IF repo_path = wd THEN LsFiles(wd)
        ELSE {RelativeTo(Join(wd, line), repo_path) :
                line \in {l \in LsFiles(wd) : IsBelow(Join(wd, l), repo_path)}}

\* Records without git information for the files fs, as seen from repo_path.
UntrackedRecords(see, fs) ==
    [i \in 1..Len(fs) |-> UntrackedRecord(see[fs[i]].rel, files[fs[i]].mtime)]

\* Stand-in for steps 2 and 3: nothing is walked.
NoWalk(see, tracked) == <<>>

\* Steps 2 and 3: the top-level files and the walks of the directories,
\* for the files outside the tracked set.
WalkResults(see, tracked) ==
    UntrackedRecords(see, SelectSeq(AllFiles, LAMBDA f :
                              /\ files[f].exists
                              /\ see[f].below
                              /\ see[f].reaches
                              /\ see[f].matches
                              /\ see[f].rel \notin tracked))

\* Step 4, first pass: the intent-to-add files that pass the filters.
ItaCands(see, ita_files) ==
    UntrackedRecords(see, SelectSeq(ita_files, LAMBDA f :
                              /\ see[f].below
                              /\ see[f].matches
                              /\ ~see[f].skip
                              /\ ~see[f].hidden
                              /\ files[f].exists))

\* Stand-in for the second pass of step 4: the log is not read.
NoLogCands(see, log) == <<>>

\* Step 4, second pass: the lines of the log that pass the filters, each
\* with the commit that names it.
LogCands(see, log) ==
    LET log_lines == SelectSeq(log, LAMBDA l :
                         /\ see[l.file].below
                         /\ ~see[l.file].skip
                         /\ see[l.file].matches
                         /\ files[l.file].exists)
        Rec(l) == TrackedRecord(see[l.file].rel, files[l.file].mtime, l.info)
    IN  [i \in 1..Len(log_lines) |-> Rec(log_lines[i])]

\* Stand-in for step 5: no tracked path is reconciled.
NoCands(see, tracked) == <<>>

\* Step 5: tracked paths, for those without a record so far.
TrackedCands(see, tracked) ==
    UntrackedRecords(see, SelectSeq(AllFiles, LAMBDA f :
                              /\ see[f].below
                              /\ see[f].rel \in tracked
                              /\ see[f].matches
                              /\ ~see[f].skip
                              /\ ~see[f].hidden
                              /\ files[f].exists))

\* results and seen_paths after steps 2 and 3.
AfterWalk(walk_results) ==
    [results |-> walk_results, seen_paths |-> Range(PathsOf(walk_results))]

\* Steps 4 and 5 on the records of the walk, then sort and trim.  reported
\* lists the paths the sources named, before seen_paths is consulted.
MergeSortTrim(walk_results, ita_cands, log_cands, tracked_cands, limit) ==
    [results |-> Slice(SortByDateDesc(
                     MergeNew(MergeNew(MergeNew(AfterWalk(walk_results), ita_cands),
                                       log_cands),
                              tracked_cands).results), limit),
     reported |-> PathsOf(walk_results) \o PathsOf(ita_cands)
                  \o PathsOf(log_cands) \o PathsOf(tracked_cands)]

\* Steps 1 to 5 given the tracked set, the intent-to-add files and the log.
ScanWith(see, tracked, ita_files, log, limit) ==
    MergeSortTrim(WalkResults(see, tracked), ItaCands(see, ita_files),
                  LogCands(see, log), TrackedCands(see, tracked), limit)

\* get_recently_changed_files below the cache check, for a repo_path inside
\* a repository.
GitScan(repo_path, limit, ls_ok, log_ok, status_ok) ==
    ScanWith(SeenFrom[exclude_dirs][repo_path], BuildTrackedSet(repo_path, ls_ok),
             FindIntentToAddFiles(WorkingDir(repo_path), status_ok),
             GitLog(WorkingDir(repo_path), log_ok), limit)

\* _find_untracked_md_files without a repository: os.walk for ".md".
FoundMdFiles(see) ==
    SortByDateDesc(UntrackedRecords(see, SelectSeq(AllFiles, LAMBDA f :
                                             /\ files[f].exists
                                             /\ see[f].below
                                             /\ see[f].reaches
                                             /\ see[f].md)))

FindUntrackedMdFiles(repo_path) == FoundMdFiles(SeenFrom[exclude_dirs][repo_path])

\* "if not should_skip(Path(f["path"]))", sort and trim.
SkipSortTrim(untracked, limit) ==
    [results |-> Slice(SortByDateDesc(SelectSeq(untracked, LAMBDA r :
                           ~ShouldSkip(r.path, exclude_dirs))), limit),
     reported |-> PathsOf(untracked)]

\* The branch "truly no git – filesystem walk only".
PlainScan(repo_path, limit) ==
    SkipSortTrim(FindUntrackedMdFiles(repo_path), limit)

-----------------------------------------------------------------------------
\* The TTL cache of get_recently_changed_files.

\* _RECENT_FILES_TTL = 2.0, in quarter seconds.
RECENT_FILES_TTL == 8

EmptyCache == [k \in {} |-> 0]

\* cache_key = (str(self.repo_path), limit, tuple(extensions))
CacheKey(repo_path, limit, extensions) == <<repo_path, limit, extensions>>

\* Mutants: no entry is ever served; an entry is served whatever its age;
\* the cache is never cleared.
Expired(c, key) == FALSE
Present(c, key) == key \in DOMAIN c
KeptCache(c) == c

\* "cached is not None and now - ts < _RECENT_FILES_TTL"; an entry holds
\* the age now - ts of its ts.
Fresh(c, key) == key \in DOMAIN c /\ c[key].age < RECENT_FILES_TTL

\* clear_recent_files_cache()
ClearedCache(c) == EmptyCache

\* _recent_files_cache[cache_key] = (time.monotonic(), data)
Stored(c, key, age, data) ==
    [k \in DOMAIN c \cup {key} |->
        IF k = key THEN [age |-> age, data |-> data] ELSE c[k]]

\* The clock moves on by d; ages past the TTL are all alike.
AgedCache(c, d) ==
    [k \in DOMAIN c |->
        [c[k] EXCEPT !.age = IF @ + d > RECENT_FILES_TTL
                             THEN RECENT_FILES_TTL ELSE @ + d]]

\* The directories of the served root, in listing order ("A", "B", "dist").
RootDirs == <<D_A, D_B, <<100, 105, 115, 116>>>>

\* _discover_child_git_repos
DiscoverChildGitRepos(repo_path) ==
    IF repo_path # ROOT THEN <<>>
    ELSE SelectSeq(RootDirs, LAMBDA d :
            /\ ~StartsWith(d, <<46>>)
            /\ d \notin exclude_dirs
            /\ Join(repo_path, d) \in gitdirs)

\* What the call of a child's get_recently_changed_files returns: its fresh
\* cache entry, or a scan of the child.
ChildResults(child_path, limit, ls_ok, log_ok, status_ok, c) ==
    IF Fresh(c, CacheKey(child_path, limit, DEFAULT_EXTENSIONS))
    THEN c[CacheKey(child_path, limit, DEFAULT_EXTENSIONS)].data
    ELSE GitScan(child_path, limit, ls_ok, log_ok, status_ok).results

\* Stand-in for the prefixing: the paths stay as the child gave them.
Unprefixed(rs, name) == rs

\* entry["path"] = prefix + entry["path"], on the dicts the child returned.
Prefixed(rs, name) == [i \in 1..Len(rs) |-> [rs[i] EXCEPT !.path = name \o <<47>> \o @]]

\* One turn of the loop over the children: the child's records, prefixed,
\* join the records gathered, and the cache holds them as the child's list
\* (the dicts the child returned are the dicts of its cache entry).
AfterChild(acc, child_path, key, hit, entries) ==
    [all_results |-> acc.all_results \o entries,
     cache |-> Stored(acc.cache, key, IF hit THEN acc.cache[key].age ELSE 0,
                      entries),
     stored |-> IF hit THEN acc.stored ELSE acc.stored \cup {key},
     scans |-> IF hit THEN acc.scans ELSE acc.scans \cup {child_path}]

\* _get_recent_files_from_child_repos, its loop over the children.
RECURSIVE FromChildren(_, _, _, _, _, _, _)
FromChildren(repo_path, child_repos, limit, ls_ok, log_ok, status_ok, acc) ==
    IF child_repos = <<>> THEN acc
    ELSE FromChildren(repo_path, Tail(child_repos), limit, ls_ok, log_ok,
             status_ok,
             AfterChild(acc, Join(repo_path, Head(child_repos)),
                 CacheKey(Join(repo_path, Head(child_repos)), limit,
                          DEFAULT_EXTENSIONS),
                 Fresh(acc.cache,
                       CacheKey(Join(repo_path, Head(child_repos)), limit,
                                DEFAULT_EXTENSIONS)),
                 Prefixed(ChildResults(Join(repo_path, Head(child_repos)), limit,
                                       ls_ok, log_ok, status_ok, acc.cache),
                          Head(child_repos))))

\* Stand-in for the loose scan: nothing outside the children is found.
NoLoose(see, child_repos) == <<>>

\* Top-level files and the walks of the directories without .git.
LooseResults(see, child_repos) ==
    UntrackedRecords(see, SelectSeq(AllFiles, LAMBDA f :
                              /\ files[f].exists
                              /\ see[f].below
                              /\ see[f].matches
                              /\ see[f].reaches
                              /\ see[f].top \notin Range(child_repos)))

\* What a call returns and leaves: results, the paths reported, the cache
\* with the results stored under the key, the keys stored and the
\* directories scanned.
StoreAndReturn(results, reported, c, key, stored, scans) ==
    [results |-> results, reported |-> reported,
     cache |-> Stored(c, key, 0, results),
     stored |-> stored \cup {key}, scans |-> scans]

\* Sort and trim of the children's and the loose records.
MergedContainer(children, all_results, limit, key) ==
    StoreAndReturn(Slice(SortByDateDesc(all_results), limit),
                   PathsOf(all_results), children.cache, key, children.stored,
                   children.scans)

WithLoose(children, loose_results, limit, key) ==
    MergedContainer(children, children.all_results \o loose_results, limit, key)

\* _get_recent_files_from_child_repos and the store of its result.
ContainerScan(repo_path, child_repos, limit, ls_ok, log_ok, status_ok, c) ==
    WithLoose(FromChildren(repo_path, child_repos, limit, ls_ok, log_ok,
                           status_ok,
                           [all_results |-> <<>>, cache |-> c, stored |-> {},
                            scans |-> {repo_path}]),
              LooseResults(SeenFrom[exclude_dirs][repo_path], child_repos), limit,
              CacheKey(repo_path, limit, DEFAULT_EXTENSIONS))

\* Stand-in: an exception of one walk ends the collection of all walks.
AllOrNothing(walk_results, failed_dirs) ==
    IF failed_dirs = {} THEN walk_results
    ELSE SelectSeq(walk_results, LAMBDA r : TopDir(r.path) = ROOT)

\* "for fut in walk_futs: with contextlib.suppress(Exception):
\* walk_results.extend(fut.result())": the top-level records and the
\* records of every walk that did not raise; failed_dirs are the top-level
\* directories whose _walk_subdir raised.
Collected(walk_results, failed_dirs) ==
    SelectSeq(walk_results, LAMBDA r : TopDir(r.path) \notin failed_dirs)

\* The call inside a repository when the walks of failed_dirs raise.
GitScanFailing(repo_path, limit, failed_dirs) ==
    MergeSortTrim(Collected(WalkResults(SeenFrom[exclude_dirs][repo_path],
                                        BuildTrackedSet(repo_path, TRUE)),
                            failed_dirs),
                  ItaCands(SeenFrom[exclude_dirs][repo_path],
                           FindIntentToAddFiles(WorkingDir(repo_path), TRUE)),
                  LogCands(SeenFrom[exclude_dirs][repo_path],
                           GitLog(WorkingDir(repo_path), TRUE)),
                  TrackedCands(SeenFrom[exclude_dirs][repo_path],
                               BuildTrackedSet(repo_path, TRUE)),
                  limit).results

\* get_recently_changed_files(limit, extensions) on a cold cache with the
\* git commands succeeding.

\* ".txt" and ".TXT"
DOTTXT == <<46, 116, 120, 116>>
DOTTXT_UPPER == <<46, 84, 88, 84>>

\* _matches_ext as the call builds it from its extensions (ext_lower): the
\* tests of a service with the extension test of this call.
SeenAs(see, extensions) ==
    [f \in FileIds |-> [see[f] EXCEPT !.matches = MatchesExt(see[f].rel, extensions)]]

\* The call inside a repository: steps 1 to 5 with _matches_ext.
GitScanFor(repo_path, limit, extensions) ==
    ScanWith(SeenAs(SeenFrom[exclude_dirs][repo_path], extensions),
             BuildTrackedSet(repo_path, TRUE),
             FindIntentToAddFiles(WorkingDir(repo_path), TRUE),
             GitLog(WorkingDir(repo_path), TRUE), limit).results

\* The loop over the children, each called with limit and extensions.
RECURSIVE ChildrenFor(_, _, _, _)
ChildrenFor(repo_path, child_repos, limit, extensions) ==
    IF child_repos = <<>> THEN <<>>
    ELSE Prefixed(GitScanFor(Join(repo_path, Head(child_repos)), limit, extensions),
                  Head(child_repos))
         \o ChildrenFor(repo_path, Tail(child_repos), limit, extensions)

\* The three branches: a repository, a directory of repositories, and a
\* directory without git, whose scan is _find_untracked_md_files().
RecentFor(repo_path, limit, extensions) ==
    IF WorkingDir(repo_path) # NoRepo
    THEN GitScanFor(repo_path, limit, extensions)
    ELSE IF DiscoverChildGitRepos(repo_path) # <<>>
    THEN Slice(SortByDateDesc(
                   ChildrenFor(repo_path, DiscoverChildGitRepos(repo_path), limit,
                               extensions)
                   \o LooseResults(SeenAs(SeenFrom[exclude_dirs][repo_path],
                                          extensions),
                                   DiscoverChildGitRepos(repo_path))), limit)
    ELSE PlainScan(repo_path, limit).results

\* History of a call: its arguments and return value, the paths its sources
\* named, the directories it scanned, the cache entry of its key as the
\* call found it (prior) and left it (after), the files as they were when
\* it was made (at), and what the call before it returned if that had the
\* same arguments (before, a sequence of at most one result).
NoEntry == [age |-> None, data |-> <<>>]
EntryOf(c, key) == IF key \in DOMAIN c THEN c[key] ELSE NoEntry

NoCall == [repo_path |-> NoRepo, limit |-> 0, results |-> <<>>,
           reported |-> <<>>, scans |-> {}, prior |-> NoEntry, after |-> NoEntry,
           at |-> <<>>, before |-> <<>>, failed |-> {}]

\* A scan of one directory, stored.
ScanAndStore(scan, repo_path, key, c) ==
    StoreAndReturn(scan.results, scan.reported, c, key, {}, {repo_path})

\* The cache check and the three branches below it.
Outcome(repo_path, limit, ls_ok, log_ok, status_ok, c, key) ==
    IF Fresh(c, key)
    THEN [results |-> c[key].data, reported |-> <<>>, cache |-> c,
          stored |-> {}, scans |-> {}]
    ELSE IF WorkingDir(repo_path) # NoRepo
    THEN ScanAndStore(GitScan(repo_path, limit, ls_ok, log_ok, status_ok),
                      repo_path, key, c)
    ELSE IF DiscoverChildGitRepos(repo_path) # <<>>
    THEN ContainerScan(repo_path, DiscoverChildGitRepos(repo_path), limit,
                       ls_ok, log_ok, status_ok, c)
    ELSE ScanAndStore(PlainScan(repo_path, limit), repo_path, key, c)

\* The call leaves the cache of its outcome; traced tells whether the
\* history of the call is kept.
Returned(out, repo_path, limit, key, failed, traced) ==
    /\ cache' = out.cache
    /\ staleKeys' = staleKeys \ out.stored
    /\ last' = IF traced
               THEN [repo_path |-> repo_path, limit |-> limit,
                     results |-> out.results, reported |-> out.reported,
                     scans |-> out.scans, prior |-> EntryOf(cache, key),
                     after |-> EntryOf(out.cache, key), at |-> files,
                     before |-> IF last.repo_path = repo_path /\ last.limit = limit
                                THEN <<last.results>> ELSE <<>>,
                     failed |-> failed]
               ELSE last
    /\ UNCHANGED <<gitdirs, files, exclude_dirs, call>>

\* The git commands of one call that timed out, exited non-zero or raised.
Failed(ls_ok, log_ok, status_ok) ==
    {t \in {"ls-files", "log", "status"} :
        \/ t = "ls-files" /\ ~ls_ok
        \/ t = "log" /\ ~log_ok
        \/ t = "status" /\ ~status_ok}

\* get_recently_changed_files(limit) of GitService(repo_path); the three
\* flags tell whether git ls-files, git log and git status succeed.
RecentCall(repo_path, limit, ls_ok, log_ok, status_ok, traced) ==
    Returned(Outcome(repo_path, limit, ls_ok, log_ok, status_ok, cache,
                     CacheKey(repo_path, limit, DEFAULT_EXTENSIONS)),
             repo_path, limit, CacheKey(repo_path, limit, DEFAULT_EXTENSIONS),
             Failed(ls_ok, log_ok, status_ok), traced)

-----------------------------------------------------------------------------
\* services/watcher.py

WATCHED_EXTENSIONS == {DOTMD}
GIT_STATE_FILES == {STR_index, STR_HEAD, STR_MERGE_HEAD, STR_REBASE_HEAD,
                    STR_CHERRY_PICK_HEAD}

\* _QUIET_PERIOD_S = 0.5 and _MAX_WAIT_S = 3.0, in quarter seconds.
QUIET_PERIOD_S == 2
MAX_WAIT_S == 12

\* path.replace("\\", "/").split("/")
PathParts(path) == Split(ReplaceChar(path, 92, 47), 47)

IsRelevant(path) ==
    \/ \E ext \in WATCHED_EXTENSIONS : EndsWith(Lower(path), ext)
    \/ LET parts == PathParts(path)
       IN  /\ Len(parts) >= 2
           /\ parts[1] = DOTGIT
           /\ parts[Len(parts)] \in GIT_STATE_FILES

\* Mutant: no path counts as a state marker when the batch is flushed.
NotGitState(path) == FALSE

\* Stand-in: every path counts as a state marker when the batch is flushed.
AnyChange(path) == TRUE

IsGitStateChange(path) ==
    LET parts == PathParts(path)
    IN  /\ Len(parts) >= 2
        /\ parts[1] = DOTGIT
        /\ parts[Len(parts)] \in GIT_STATE_FILES

\* watchfiles.DefaultFilter.ignore_dirs: __pycache__ .git .hg .svn .tox
\* .venv .idea node_modules .mypy_cache .pytest_cache .hypothesis
IGNORE_DIRS ==
    {<<95, 95, 112, 121, 99, 97, 99, 104, 101, 95, 95>>,
     DOTGIT,
     <<46, 104, 103>>,
     <<46, 115, 118, 110>>,
     <<46, 116, 111, 120>>,
     <<46, 118, 101, 110, 118>>,
     <<46, 105, 100, 101, 97>>,
     <<110, 111, 100, 101, 95, 109, 111, 100, 117, 108, 101, 115>>,
     <<46, 109, 121, 112, 121, 95, 99, 97, 99, 104, 101>>,
     <<46, 112, 121, 116, 101, 115, 116, 95, 99, 97, 99, 104, 101>>,
     <<46, 104, 121, 112, 111, 116, 104, 101, 115, 105, 115>>}

\* watchfiles.DefaultFilter.ignore_entity_patterns, of which the model's
\* names can match "\.py[cod]$" and "~$".
IgnoredEntity(name) ==
    \/ EndsWith(name, <<46, 112, 121, 99>>)
    \/ EndsWith(name, <<46, 112, 121, 111>>)
    \/ EndsWith(name, <<46, 112, 121, 100>>)
    \/ EndsWith(name, <<126>>)

\* DefaultFilter.__call__(change, path): path split at os.sep.
DefaultFilter(path) ==
    /\ \A i \in 1..Len(Split(path, 47)) : Split(path, 47)[i] \notin IGNORE_DIRS
    /\ ~IgnoredEntity(Split(path, 47)[Len(Split(path, 47))])

\* next(i for i, p in enumerate(parts) if p == ".git"), counted from 1;
\* 0 stands for StopIteration.
GitIdx(parts) ==
    IF \E i \in 1..Len(parts) : parts[i] = DOTGIT
    THEN CHOOSE i \in 1..Len(parts) :
            /\ parts[i] = DOTGIT
            /\ \A j \in 1..(i - 1) : parts[j] # DOTGIT
    ELSE 0

\* Stand-in for the test of the filter: a state file at any depth below
\* ".git" passes.
AnyDepth(parts, git_idx) ==
    Len(parts) >= git_idx + 1 /\ parts[Len(parts)] \in GIT_STATE_FILES

\* "len(parts) == git_idx + 2 and parts[-1] in _GIT_STATE_FILES", git_idx
\* counted from 1.
OneBelowGit(parts, git_idx) ==
    Len(parts) = git_idx + 1 /\ parts[Len(parts)] \in GIT_STATE_FILES

\* _GitAwareFilter.__call__(change, path)
GitAwareFilter(path) ==
    IF GitIdx(PathParts(path)) = 0 THEN DefaultFilter(path)
    ELSE OneBelowGit(PathParts(path), GitIdx(PathParts(path)))

FilesChanged(paths) == [type |-> "files_changed", paths |-> SortedStrs(paths)]

\* _coalesce_and_broadcast(paths) up to the first await inside broadcast.
CoalesceAndBroadcast(paths, owner) ==
    IF paths = {}
    THEN UNCHANGED <<bvars, cache, staleKeys>>
    ELSE /\ cache' = IF \E p \in paths : IsGitStateChange(p)
                     THEN ClearedCache(cache) ELSE cache
         /\ staleKeys' = DOMAIN cache
         /\ BroadcastBegin(FilesChanged(paths), owner)

NoTask == [state |-> "none", left |-> 0]

\* History of the run of relevant events in progress.  A relevant event
\* (a watched document or a state marker of the root) that arrives less
\* than a quiet period after the previous one continues the run; any other
\* relevant event starts a new run.  age is the time since the run's first
\* event, gap the time since its latest one, paths the paths of its events,
\* notes the number of notifications emitted since its first event.  When a
\* notification is emitted the run is closed: size is the number of its
\* paths and covered tells whether the notification listed them all.  The
\* run is ok when it began with nothing pending (the watcher was Idle) and
\* all its events came before the maximum wait had passed.
NoBurst == [phase |-> "idle", ok |-> TRUE, age |-> 0, gap |-> 0,
            paths |-> {}, notes |-> 0, size |-> 0, covered |-> FALSE]

DocOrMarker(path) == path \in {P_a, P_docsB, P_gitindex}

BurstAfterEvent(b, changes) ==
    LET rel == {c \in changes : DocOrMarker(c)}
    IN  IF rel = {} THEN b
        ELSE IF b.phase = "idle" \/ b.gap >= QUIET_PERIOD_S
        THEN IF pending = {}
             THEN [NoBurst EXCEPT !.phase = "open", !.paths = rel]
             ELSE [NoBurst EXCEPT !.phase = "open", !.ok = FALSE]
        ELSE IF b.ok /\ b.phase = "open" /\ b.age < MAX_WAIT_S
        THEN [b EXCEPT !.gap = 0, !.paths = b.paths \cup rel]
        ELSE IF b.ok /\ b.phase = "closed" /\ b.age < MAX_WAIT_S
        THEN \* the run goes on after its notification was emitted
             [b EXCEPT !.phase = "open", !.gap = 0, !.paths = rel]
        ELSE [NoBurst EXCEPT !.phase = "open", !.ok = FALSE]

BurstAfterFlush(b, msg) ==
    IF b.phase = "idle" \/ ~b.ok THEN b
    ELSE [b EXCEPT !.phase = "closed", !.paths = {},
                   !.size = Cardinality(b.paths),
                   !.covered = b.paths \subseteq Range(msg.paths),
                   !.notes = IF b.notes < 2 THEN b.notes + 1 ELSE 2]

BurstAfterTick(b) ==
    IF b.phase = "idle" THEN b
    ELSE [b EXCEPT !.age = IF b.ok /\ b.age < MAX_WAIT_S THEN b.age + 1 ELSE b.age,
                   !.gap = IF b.gap < QUIET_PERIOD_S THEN b.gap + 1 ELSE b.gap]

\* Mutants of the deadline test: a loop that flushes on every event, and a
\* pure debounce without a deadline.
DeadlineAlways(elapsed) == TRUE
DeadlineNever(elapsed) == FALSE

\* Stand-in: the loop creates no timer task.
NeverArmed == [state |-> "none", left |-> 0]

\* asyncio.create_task(_delayed_flush()): a task that sleeps the quiet
\* period and then flushes.
DelayedFlush == [state |-> "sleeping", left |-> QUIET_PERIOD_S]

\* The deadline test of the watch loop.
DeadlinePassed(elapsed) == elapsed >= MAX_WAIT_S

\* One iteration of "async for changes in awatch(...)".
WatchEvent(changes) ==
    /\ main = "awatch"
    /\ LET pending1 == pending \cup {c \in changes : IsRelevant(c)}
           elapsed1 == IF batch_elapsed = None THEN 0 ELSE batch_elapsed
           running == quiet_task.state \in {"sleeping", "flushing"}
           cancelled == IF running THEN [state |-> "cancelled", left |-> 0]
                        ELSE quiet_task
           burst1 == BurstAfterEvent(burst, changes)
           oldest1 == IF oldest = None /\ \E c \in changes : DocOrMarker(c)
                      THEN 0 ELSE oldest
       IN  IF pending1 = {}
           THEN UNCHANGED <<bvars, cache, staleKeys, wvars>>
           ELSE IF DeadlinePassed(elapsed1)
           THEN \* quiet_task.cancel(); await flush()
                /\ pending' = {}
                /\ batch_elapsed' = None
                /\ quiet_task' = cancelled
                /\ CoalesceAndBroadcast(pending1, "main")
                /\ main' = IF active_connections = <<>> THEN "awatch" ELSE "flushing"
                /\ burst' = BurstAfterFlush(burst1, FilesChanged(pending1))
                /\ oldest' = None
                /\ UNCHANGED mvars
           ELSE \* quiet_task.cancel(); quiet_task = create_task(_delayed_flush())
                /\ pending' = pending1
                /\ batch_elapsed' = elapsed1
                /\ quiet_task' = DelayedFlush
                /\ bc' = IF quiet_task.state = "flushing" /\ bc.state = "sending"
                         THEN [NoBroadcast EXCEPT !.state = "cancelled"] ELSE bc
                /\ burst' = burst1
                /\ oldest' = oldest1
                /\ UNCHANGED <<active_connections, handler, bcTrace, bcStart,
                               bcAttempts, bcFailed, bcLeft, cache, staleKeys, main,
                               mvars>>

\* _delayed_flush: the sleep is over, flush() runs to its first await.
TimerFire ==
    /\ quiet_task.state = "sleeping"
    /\ quiet_task.left = 0
    /\ pending' = {}
    /\ batch_elapsed' = None
    /\ CoalesceAndBroadcast(pending, "timer")
    /\ quiet_task' = [quiet_task EXCEPT !.state =
                        IF pending = {} \/ active_connections = <<>>
                        THEN "done" ELSE "flushing"]
    /\ burst' = IF pending = {} THEN burst
                ELSE BurstAfterFlush(burst, FilesChanged(pending))
    /\ oldest' = IF pending = {} THEN oldest ELSE None
    /\ UNCHANGED <<main, mvars, world>>

\* A send_json of the broadcast in flight returns or raises; when the
\* broadcast ends, the coroutine awaiting it goes on.
BroadcastStep ==
    /\ bc.state = "sending"
    /\ \E ok \in BOOLEAN : BroadcastStepEffect(ok)
    /\ quiet_task' = IF bc'.state = "done" /\ bc.owner = "timer"
                     THEN [quiet_task EXCEPT !.state = "done"] ELSE quiet_task
    /\ main' = IF bc'.state = "done" /\ bc.owner = "main" THEN "awatch" ELSE main
    /\ UNCHANGED <<pending, batch_elapsed, burst, oldest, mvars, staleKeys, cache,
                   world>>

\* Time passes; a sleep that is over is woken before the clock moves on.
Tick ==
    /\ ~(quiet_task.state = "sleeping" /\ quiet_task.left = 0)
    /\ batch_elapsed # None => batch_elapsed < MaxElapsed
    /\ batch_elapsed' = IF batch_elapsed = None THEN None ELSE batch_elapsed + 1
    /\ quiet_task' = IF quiet_task.state = "sleeping"
                     THEN [quiet_task EXCEPT !.left = @ - 1] ELSE quiet_task
    /\ burst' = BurstAfterTick(burst)
    /\ oldest' = IF oldest = None \/ oldest >= MaxElapsed THEN oldest ELSE oldest + 1
    /\ cache' = AgedCache(cache, 1)
    /\ UNCHANGED <<bvars, pending, main, mvars, staleKeys, world>>

-----------------------------------------------------------------------------
\* watch_multi_repo

\* The names of the repositories of the daemon configuration.
REPO_docs == "docs"
REPO_blog == "blog"

\* msg with msg["repo"] = repo_name.
FilesChangedIn(paths, repo_name) ==
    [type |-> "files_changed", paths |-> SortedStrs(paths), repo |-> repo_name]

\* pending.setdefault(name, set()).add(rel_path); a dict keeps its keys in
\* the order they were inserted.
SetDefaultAdd(d, name, rel_path) ==
    IF \E i \in 1..Len(d) : d[i].repo = name
    THEN [i \in 1..Len(d) |->
            IF d[i].repo = name THEN [d[i] EXCEPT !.paths = @ \cup {rel_path}]
            ELSE d[i]]
    ELSE Append(d, [repo |-> name, paths |-> {rel_path}])

\* The loop over the changes of one event, each a (repository, relative
\* path) pair.
RECURSIVE AddChanges(_, _)
AddChanges(d, changes) ==
    IF changes = {} THEN d
    ELSE LET c == CHOOSE x \in changes : TRUE
         IN  AddChanges(IF IsRelevant(c[2]) THEN SetDefaultAdd(d, c[1], c[2]) ELSE d,
                        changes \ {c})

\* The messages _coalesce_and_broadcast builds for the items of a snapshot.
Messages(items) ==
    [i \in 1..Len(items) |-> FilesChangedIn(items[i].paths, items[i].repo)]

\* The items the loop of flush() takes before it is suspended in a
\* send_json: all of them when nobody is connected (broadcast returns at
\* once), else the first.
Taken(items, conns) ==
    IF conns = <<>> \/ items = <<>> THEN items ELSE <<Head(items)>>

\* The loop of flush() goes on over items until it is suspended or ends:
\* for the items taken the cache is cleared if a state marker is among the
\* paths, and the message is handed to broadcast.
FlushLoop(taken, items, conns, owner, sofar) ==
    /\ snapshot' = SubSeq(items, Len(taken) + 1, Len(items))
    /\ emitted' = sofar \o Messages(taken)
    /\ cache' = IF \E i \in 1..Len(taken) : \E p \in taken[i].paths : IsGitStateChange(p)
                THEN ClearedCache(cache) ELSE cache
    /\ staleKeys' = IF taken = <<>> THEN staleKeys ELSE DOMAIN cache
    /\ IF taken = <<>>
       THEN /\ bc' = IF bc.state = "sending" THEN [NoBroadcast EXCEPT !.state = "done"]
                     ELSE bc
            /\ UNCHANGED <<bcStart, bcAttempts, bcFailed, bcLeft>>
       ELSE /\ bc' = IF conns = <<>> THEN [NoBroadcast EXCEPT !.state = "skipped"]
                     ELSE [state |-> "sending", idx |-> 1, cur |-> conns[1],
                           dead |-> <<>>, sent |-> 0, msg |-> Messages(taken)[1],
                           owner |-> owner]
            /\ bcStart' = IF bcTrace THEN Range(conns) ELSE {}
            /\ bcAttempts' = IF bcTrace /\ conns # <<>>
                             THEN [ZeroAttempts EXCEPT ![conns[1]] = 1]
                             ELSE ZeroAttempts
            /\ bcFailed' = {}
            /\ bcLeft' = {}
    /\ UNCHANGED <<handler, bcTrace>>

\* flush() from its entry: the snapshot is taken, pending cleared and
\* batch_start reset before the loop begins.
MultiFlush(d, owner) ==
    /\ mpending' = <<>>
    /\ batch_elapsed' = None
    /\ flushed' = d
    /\ FlushLoop(Taken(d, active_connections), d, active_connections, owner, <<>>)
    /\ UNCHANGED active_connections

\* flush() is suspended in a send_json of the broadcast it began.
Suspended(d) == d # <<>> /\ active_connections # <<>>

\* One iteration of "async for changes in awatch(*watch_paths, ...)".
MultiWatchEventWith(d1, elapsed1) ==
    IF d1 = <<>>
    THEN UNCHANGED <<bvars, cache, staleKeys, wvars>>
    ELSE IF DeadlinePassed(elapsed1)
    THEN \* quiet_task.cancel(); await flush()
         /\ quiet_task' = IF quiet_task.state \in {"sleeping", "flushing"}
                          THEN [state |-> "cancelled", left |-> 0] ELSE quiet_task
         /\ MultiFlush(d1, "main")
         /\ main' = IF Suspended(d1) THEN "flushing" ELSE "awatch"
         /\ UNCHANGED <<pending, burst, oldest>>
    ELSE \* quiet_task.cancel(); quiet_task = create_task(_delayed_flush()):
         \* a flush() the cancelled task was in ends where it was suspended
         /\ mpending' = d1
         /\ batch_elapsed' = elapsed1
         /\ quiet_task' = DelayedFlush
         /\ bc' = IF quiet_task.state = "flushing" /\ bc.state = "sending"
                  THEN [NoBroadcast EXCEPT !.state = "cancelled"] ELSE bc
         /\ snapshot' = IF quiet_task.state = "flushing" THEN <<>> ELSE snapshot
         /\ UNCHANGED <<active_connections, handler, bcTrace, bcStart, bcAttempts,
                        bcFailed, bcLeft, cache, staleKeys, main, pending, burst,
                        oldest, flushed, emitted>>

MultiWatchEvent(changes) ==
    /\ main = "awatch"
    /\ MultiWatchEventWith(AddChanges(mpending, changes),
                           IF batch_elapsed = None THEN 0 ELSE batch_elapsed)

\* _delayed_flush: the sleep is over, flush() runs to its first await.
MultiTimerFire ==
    /\ quiet_task.state = "sleeping"
    /\ quiet_task.left = 0
    /\ MultiFlush(mpending, "timer")
    /\ quiet_task' = [quiet_task EXCEPT !.state =
                        IF Suspended(mpending) THEN "flushing" ELSE "done"]
    /\ UNCHANGED <<main, pending, burst, oldest, world>>

\* The last send_json of a broadcast returned or raised and flush() has
\* items left: the dead connections are pruned and the loop goes on.
FlushGoesOn(conns) ==
    /\ active_connections' = conns
    /\ FlushLoop(Taken(snapshot, conns), snapshot, conns, bc.owner, emitted)
    /\ quiet_task' = IF bc.owner = "timer" /\ conns = <<>>
                     THEN [quiet_task EXCEPT !.state = "done"] ELSE quiet_task
    /\ main' = IF bc.owner = "main" /\ conns = <<>> THEN "awatch" ELSE main
    /\ UNCHANGED <<mpending, flushed>>

\* A send_json of the broadcast in flight returns or raises.
MultiBroadcastStep ==
    /\ bc.state = "sending"
    /\ \E ok \in BOOLEAN :
          IF IterHasNext(active_connections, bc.idx) \/ snapshot = <<>>
          THEN /\ BroadcastStepEffect(ok)
               /\ quiet_task' = IF bc'.state = "done" /\ bc.owner = "timer"
                                THEN [quiet_task EXCEPT !.state = "done"]
                                ELSE quiet_task
               /\ main' = IF bc'.state = "done" /\ bc.owner = "main"
                          THEN "awatch" ELSE main
               /\ UNCHANGED <<mvars, staleKeys, cache>>
          ELSE FlushGoesOn(RemoveAll(active_connections,
                                     IF ok THEN bc.dead ELSE Append(bc.dead, bc.cur)))
    /\ UNCHANGED <<pending, batch_elapsed, burst, oldest, world>>

-----------------------------------------------------------------------------
\* The worlds the specifications start from.

FileState(exists, mtime, git) ==
    [exists |-> exists, mtime |-> mtime, index |-> git.index, ita |-> git.ita,
     log |-> git.log]

\* never added; staged, never committed; git add -N; committed; committed
\* and then removed from the index.
Untracked == [index |-> FALSE, ita |-> FALSE, log |-> FALSE]
Staged == [index |-> TRUE, ita |-> FALSE, log |-> FALSE]
IntentToAdd == [index |-> TRUE, ita |-> TRUE, log |-> FALSE]
Committed == [index |-> TRUE, ita |-> FALSE, log |-> TRUE]
Unindexed == [index |-> FALSE, ita |-> FALSE, log |-> TRUE]

Mtimes == (MaxMtime - 2)..MaxMtime

\* No function has been called.
NoInvocation == [op |-> "none"]

\* A fresh process: nothing cached, nothing asked yet.
AIdle ==
    /\ cache = EmptyCache
    /\ staleKeys = {}
    /\ last = NoCall
    /\ call = NoInvocation

\* One repository at the served root, every file committed.
World0 ==
    /\ gitdirs = {ROOT}
    /\ exclude_dirs = DEFAULT_EXCLUDE_DIRS
    /\ files = [f \in FileIds |-> FileState(TRUE, MaxMtime, Committed)]

-----------------------------------------------------------------------------
\* Specification of the broadcaster alone: any caller may broadcast.

SomeMessage == FilesChanged({P_a})

WIdle ==
    /\ pending = {}
    /\ batch_elapsed = None
    /\ quiet_task = NoTask
    /\ main = "awatch"
    /\ burst = NoBurst
    /\ oldest = None
    /\ mpending = <<>>
    /\ snapshot = <<>>
    /\ flushed = <<>>
    /\ emitted = <<>>

BIdle ==
    /\ bcTrace = TRUE
    /\ active_connections = <<>>
    /\ handler = [o \in Observers |-> "new"]
    /\ bc = NoBroadcast
    /\ bcStart = {}
    /\ bcAttempts = ZeroAttempts
    /\ bcFailed = {}
    /\ bcLeft = {}

\* The state around a call of one function: nobody connected, no batch,
\* nothing cached.
Quiet ==
    /\ BIdle
    /\ WIdle
    /\ cache = EmptyCache
    /\ staleKeys = {}
    /\ last = NoCall

\* The function has been called and has not returned.
Entered(op, args) == [op |-> op, args |-> args, done |-> FALSE]

\* The call returns ret.
Return(ret) ==
    /\ call' = [op |-> call.op, args |-> call.args, done |-> TRUE, ret |-> ret]
    /\ UNCHANGED <<bvars, wvars, cache, staleKeys, gitdirs, files, exclude_dirs, last>>

BInit == BIdle /\ WIdle /\ AIdle /\ World0

Broadcast ==
    /\ bc.state # "sending"
    /\ BroadcastBegin(SomeMessage, "caller")
    /\ UNCHANGED <<wvars, avars>>

Origin ==
    /\ \E o \in Observers, originOk \in BOOLEAN : HandlerOrigin(o, originOk)
    /\ UNCHANGED <<wvars, avars>>

Accept ==
    /\ \E o \in Observers, ok \in BOOLEAN : HandlerAccept(o, ok)
    /\ UNCHANGED <<wvars, avars>>

Hello ==
    /\ \E o \in Observers, ok \in BOOLEAN : HandlerHello(o, ok)
    /\ UNCHANGED <<wvars, avars>>

Disconnect ==
    /\ \E o \in Observers : HandlerDisconnect(o)
    /\ UNCHANGED <<wvars, avars>>

BNext == Broadcast \/ BroadcastStep \/ Origin \/ Accept \/ Hello \/ Disconnect

SpecB == BInit /\ [][BNext]_vars

-----------------------------------------------------------------------------
\* Specification of the watcher with its observers.

WatchPaths == {P_a, P_docsB, P_gitindex, P_notes}

ChangeSets == {c \in SUBSET WatchPaths : c # {} /\ Cardinality(c) <= MaxChanges}

Event ==
    /\ \E changes \in ChangeSets : WatchEvent(changes)
    /\ UNCHANGED world

\* The server has been up for a while: some websockets are registered and
\* their handlers wait in receive_text.
Connected(k) ==
    /\ active_connections = [i \in 1..k |-> i]
    /\ handler = [o \in Observers |-> IF o <= k THEN "recv" ELSE "new"]
    /\ bcTrace = FALSE
    /\ bc = NoBroadcast
    /\ bcStart = {}
    /\ bcAttempts = ZeroAttempts
    /\ bcFailed = {}
    /\ bcLeft = {}

WInit ==
    /\ \E k \in 0..NumWatchObservers : Connected(k)
    /\ WIdle
    /\ AIdle
    /\ World0

WNext == Event \/ TimerFire \/ BroadcastStep \/ Tick \/ Disconnect

SpecW == WInit /\ [][WNext]_vars

-----------------------------------------------------------------------------
\* Specification of the watcher of several repositories with its observers.

MultiChanges == {<<REPO_docs, P_a>>, <<REPO_blog, P_docsB>>, <<REPO_blog, P_gitindex>>,
                 <<REPO_docs, P_notes>>}

MultiEvent ==
    /\ \E changes \in {c \in SUBSET MultiChanges :
                          c # {} /\ Cardinality(c) <= MaxChanges} :
          MultiWatchEvent(changes)
    /\ UNCHANGED world

MInit == WInit

MNext == MultiEvent \/ MultiTimerFire \/ MultiBroadcastStep \/ Tick

SpecM == MInit /\ [][MNext]_vars

-----------------------------------------------------------------------------
\* Specification of the watch filter: it is called once, with any path of
\* up to MaxParts of these names.

\* .git index HEAD refs a.md node_modules x.pyc
FilterNames ==
    {DOTGIT, STR_index, STR_HEAD, <<114, 101, 102, 115>>, P_a,
     <<110, 111, 100, 101, 95, 109, 111, 100, 117, 108, 101, 115>>,
     <<120, 46, 112, 121, 99>>}

\* "/".join(parts)
RECURSIVE JoinParts(_)
JoinParts(parts) ==
    IF Len(parts) = 1 THEN parts[1]
    ELSE parts[1] \o <<47>> \o JoinParts(Tail(parts))

FilterPaths ==
    {JoinParts(parts) : parts \in UNION {[1..n -> FilterNames] : n \in 1..MaxParts}}

FilterInit ==
    /\ Quiet
    /\ World0
    /\ \E path \in FilterPaths : call = Entered("_GitAwareFilter", path)

FilterCall ==
    /\ call.op = "_GitAwareFilter"
    /\ ~call.done
    /\ Return(GitAwareFilter(call.args))

FilterNext == FilterCall

SpecFilter == FilterInit /\ [][FilterNext]_vars

-----------------------------------------------------------------------------
\* get_history, get_last_commit and get_last_commits_batch.  A history is
\* a sequence of revisions, newest first, each the set of files it names.

\* "--max-count=500" of get_last_commits_batch, in revisions of the model.
MaxCount == 2

\* git log in working_dir wd: the revisions that name a file of wd, each
\* with those files, as paths relative to wd.
LogIn(wd, history) ==
    LET ks == SelectSeq([k \in 1..Len(history) |-> k], LAMBDA k :
                  \E f \in history[k] : Owner(f) = wd)
    IN  [i \in 1..Len(ks) |->
            [hexsha |-> <<wd, ks[i]>>,
             author_name |-> IF ks[i] = 2 THEN "" ELSE "dev",
             names |-> [j \in 1..Len(SelectSeq(AllFiles, LAMBDA f :
                                       f \in history[ks[i]] /\ Owner(f) = wd)) |->
                          RelativeTo(FilePath[SelectSeq(AllFiles, LAMBDA f :
                                       f \in history[ks[i]] /\ Owner(f) = wd)[j]], wd)]]]

\* GitCommit(hexsha=hexsha, author_name=author_name or "Unknown", ...)
Summary(c) ==
    [hexsha |-> c.hexsha,
     author_name |-> IF c.author_name = "" THEN "Unknown" ELSE c.author_name]

\* --max-count=n
MaxCountOf(revs, n) == SubSeq(revs, 1, IF n < Len(revs) THEN n ELSE Len(revs))

\* "-- <path>": the revision names the path or a file below it.
Touches(c, repo_path) ==
    \E j \in 1..Len(c.names) :
        c.names[j] = repo_path \/ StartsWith(c.names[j], repo_path \o <<47>>)

\* _get_repo_relative_path
GetRepoRelativePath(repo_path, path) ==
    IF WorkingDir(repo_path) = NoRepo THEN path
    ELSE RelativeTo(Join(repo_path, path), WorkingDir(repo_path))

\* _resolve_child_repo: a sequence of at most one (service, child_rel).
ResolveChildRepo(repo_path, path) ==
    IF Len(PathParts(path)) < 2 THEN <<>>
    ELSE IF Join(repo_path, PathParts(path)[1]) \notin gitdirs THEN <<>>
    ELSE <<[repo_path |-> Join(repo_path, PathParts(path)[1]),
            child_rel |-> JoinParts(Tail(PathParts(path)))]>>

\* Stand-in for the limit of get_history: the whole log is returned.
Unlimited(revs, limit) == revs

\* f"--max-count={limit}"
Limited(revs, limit) == MaxCountOf(revs, limit)

\* get_history of a service inside a repository.
RepoHistory(repo_path, path, limit, history) ==
    LET revs == Limited(SelectSeq(LogIn(WorkingDir(repo_path), history), LAMBDA c :
                    Touches(c, GetRepoRelativePath(repo_path, path))), limit)
    IN  [i \in 1..Len(revs) |-> Summary(revs[i])]

\* child[0].get_history(child[1], limit=limit)
ChildHistory(child, limit, history) ==
    IF child = <<>> THEN <<>>
    ELSE RepoHistory(child[1].repo_path, child[1].child_rel, limit, history)

GetHistory(repo_path, path, limit, history) ==
    IF WorkingDir(repo_path) = NoRepo
    THEN ChildHistory(ResolveChildRepo(repo_path, path), limit, history)
    ELSE RepoHistory(repo_path, path, limit, history)

\* get_last_commit: a sequence of at most one summary.
GetLastCommit(repo_path, path, history) ==
    MaxCountOf(GetHistory(repo_path, path, 1, history), 1)

\* result[orig_path] = commit
Assign(result, orig_path, commit) ==
    [p \in DOMAIN result \cup {orig_path} |->
        IF p = orig_path THEN commit ELSE result[p]]

\* {self._get_repo_relative_path(p): p for p in paths}
RepoPathsOf(repo_path, paths) ==
    [r \in {GetRepoRelativePath(repo_path, paths[i]) : i \in 1..Len(paths)} |->
        paths[CHOOSE i \in 1..Len(paths) :
                 /\ GetRepoRelativePath(repo_path, paths[i]) = r
                 /\ \A j \in (i + 1)..Len(paths) :
                        GetRepoRelativePath(repo_path, paths[j]) # r]]

\* The lines of git log --name-only: each file name with its revision.
RECURSIVE NameLines(_)
NameLines(revs) ==
    IF revs = <<>> THEN <<>>
    ELSE [j \in 1..Len(Head(revs).names) |->
             [current_commit |-> Summary(Head(revs)), stripped |-> Head(revs).names[j]]]
         \o NameLines(Tail(revs))

\* Stand-in for the file-path branch: the revision is recorded for every
\* line that names a requested path.
EveryMatch(line, repo_paths, remaining, result) ==
    IF line.stripped \in DOMAIN repo_paths
    THEN Assign(result, repo_paths[line.stripped], line.current_commit)
    ELSE result

\* The file-path branch of the loop over the lines.
FirstMatch(line, repo_paths, remaining, result) ==
    IF line.stripped \in DOMAIN repo_paths /\ repo_paths[line.stripped] \in remaining
    THEN Assign(result, repo_paths[line.stripped], line.current_commit)
    ELSE result

\* The loop over the lines; it breaks when nothing remains.
RECURSIVE MatchLines(_, _, _, _)
MatchLines(lines, repo_paths, requested, result) ==
    IF lines = <<>> \/ requested \ DOMAIN result = {} THEN result
    ELSE MatchLines(Tail(lines), repo_paths, requested,
                    FirstMatch(Head(lines), repo_paths,
                               requested \ DOMAIN result, result))

\* The branch of get_last_commits_batch that delegates to child
\* repositories.
RECURSIVE FromChildRepos(_, _, _, _)
FromChildRepos(repo_path, paths, history, result) ==
    IF paths = <<>> THEN result
    ELSE FromChildRepos(repo_path, Tail(paths), history,
             IF ChildHistory(ResolveChildRepo(repo_path, Head(paths)), 1, history) = <<>>
             THEN result
             ELSE Assign(result, Head(paths),
                         ChildHistory(ResolveChildRepo(repo_path, Head(paths)), 1,
                                      history)[1]))

GetLastCommitsBatch(repo_path, paths, history) ==
    IF paths = <<>> THEN EmptyCache
    ELSE IF WorkingDir(repo_path) = NoRepo
    THEN FromChildRepos(repo_path, paths, history, EmptyCache)
    ELSE MatchLines(NameLines(MaxCountOf(LogIn(WorkingDir(repo_path), history), MaxCount)),
                    RepoPathsOf(repo_path, paths), Range(paths), EmptyCache)

-----------------------------------------------------------------------------
\* Specification of the history functions: one call of get_history or of
\* get_last_commits_batch, on any history of up to MaxCommits revisions.

\* The file lists a revision can have: top.md; A/a.md; A/n.txt; both;
\* B/b.MD; top.md, A/a.md and B/b.MD.
FileLists == {{1}, {2}, {5}, {2, 5}, {3}, {1, 2, 3}}

Histories == UNION {[1..n -> FileLists] : n \in 0..MaxCommits}

\* zz/x.md
F_zz == <<122, 122, 47, 120, 46, 109, 100>>

\* The served root as a repository, without a binding and with one or two
\* child repositories, with none.
HistWorld ==
    /\ gitdirs \in {{ROOT}, {D_A}, {D_A, D_B}, {}}
    /\ exclude_dirs = DEFAULT_EXCLUDE_DIRS
    /\ files = [f \in FileIds |-> FileState(TRUE, MaxMtime, Committed)]

\* What is asked of the service at the root and of the service at A.
HistoryArgs ==
    [repo_path : {ROOT}, path : {F_top, F_Aa, F_Bb, F_An, D_A, F_zz},
     limit : 0..MaxLimit, history : Histories]
    \cup [repo_path : {D_A}, path : {P_a}, limit : 0..MaxLimit, history : Histories]

BatchArgs ==
    [repo_path : {ROOT},
     paths : {<<>>, <<F_top, F_Aa, F_Bb>>, <<F_An, F_Aa>>, <<D_A, F_zz, F_top>>},
     history : Histories]
    \cup [repo_path : {D_A}, paths : {<<P_a, <<110, 46, 116, 120, 116>>>>},
          history : Histories]

HistInit ==
    /\ Quiet
    /\ HistWorld
    /\ \/ \E args \in HistoryArgs : call = Entered("get_history", args)
       \/ \E args \in BatchArgs : call = Entered("get_last_commits_batch", args)

HistoryCall ==
    /\ call.op = "get_history"
    /\ ~call.done
    /\ Return(GetHistory(call.args.repo_path, call.args.path, call.args.limit,
                         call.args.history))

BatchCall ==
    /\ call.op = "get_last_commits_batch"
    /\ ~call.done
    /\ Return(GetLastCommitsBatch(call.args.repo_path, call.args.paths,
                                  call.args.history))

HistNext == HistoryCall \/ BatchCall

SpecHist == HistInit /\ [][HistNext]_vars

-----------------------------------------------------------------------------
\* routers/api.py: which directory a request is served from.

\* settings.target_repo
TARGET_REPO == "."

\* daemon_config.get_repo(name): a sequence of at most one path.
GetRepo(name) ==
    IF name = REPO_docs THEN <<"/srv/docs">>
    ELSE IF name = REPO_blog THEN <<"/srv/blog">>
    ELSE <<>>

\* An error response; no service was created.
HTTPException(status_code) == [status |-> status_code, root |-> "none"]

\* get_fs_service, get_git_service: the service on a root, or the error
\* raised.  repo is "" when the handler passes no name.
GetService(daemon_config, repo) ==
    IF daemon_config
    THEN IF repo = "" THEN HTTPException(400)
         ELSE IF GetRepo(repo) = <<>> THEN HTTPException(404)
         ELSE [status |-> 200, root |-> GetRepo(repo)[1]]
    ELSE [status |-> 200, root |-> TARGET_REPO]

\* Stand-in for _require_single_repo_mode: the mode is not looked at.
AnyMode(multi_repo) == <<>>

\* _require_single_repo_mode: the exceptions it raises.
RequireSingleRepoMode(multi_repo) ==
    IF multi_repo THEN <<HTTPException(404)>> ELSE <<>>

\* _validate_commit_sha
ValidateCommitSha(commit_ok) ==
    IF commit_ok THEN <<>> ELSE <<HTTPException(400)>>

\* The rest of a handler: the error of the service lookup, or the answer
\* of the service, whose status is outcome.
Answer(service, outcome) ==
    IF service.status # 200 THEN service
    ELSE [status |-> outcome, root |-> service.root]

\* The first exception raised, or the answer.
Respond(raised, answer) == IF raised # <<>> THEN raised[1] ELSE answer

\* The handlers without a repository name; /version asks for no mode.
LegacyEndpoint(endpoint, multi_repo, commit_ok, outcome) ==
    Respond((IF endpoint = "/version" THEN <<>>
             ELSE RequireSingleRepoMode(multi_repo))
            \o (IF endpoint = "/git/diff" THEN ValidateCommitSha(commit_ok) ELSE <<>>),
            Answer(GetService(multi_repo, ""), outcome))

\* The handlers of /r/{repo}/...
MultiEndpoint(endpoint, repo, multi_repo, commit_ok, outcome) ==
    Respond(IF endpoint = "/git/diff" THEN ValidateCommitSha(commit_ok) ELSE <<>>,
            Answer(GetService(multi_repo, repo), outcome))

-----------------------------------------------------------------------------
\* Specification of the API: one request, in single-repo or in daemon
\* mode, for any endpoint and any repository name.

LegacyEndpoints ==
    {"/tree", "/content", "/git/history", "/git/status", "/git/diff",
     "/git/recent", "/info", "/files"}

\* The statuses the service behind an endpoint can answer with.
Outcomes(endpoint) ==
    IF endpoint \in {"/tree", "/content"} THEN {200, 400}
    ELSE IF endpoint \in {"/git/status", "/git/diff"} THEN {200, 404}
    ELSE {200}

Requests ==
    {r \in [prefix : {"", "/r/"}, endpoint : LegacyEndpoints \cup {"/version"},
            repo : {"", REPO_docs, REPO_blog, "nonexistent"},
            multi_repo : BOOLEAN, commit_ok : BOOLEAN, outcome : {200, 400, 404}] :
        /\ r.outcome \in Outcomes(r.endpoint)
        /\ r.repo = "" <=> r.prefix = ""
        /\ r.endpoint # "/git/diff" => r.commit_ok}

ApiInit ==
    /\ Quiet
    /\ World0
    /\ \E r \in Requests : call = Entered("request", r)

LegacyRequest ==
    /\ call.op = "request" /\ call.args.prefix = ""
    /\ ~call.done
    /\ Return(LegacyEndpoint(call.args.endpoint, call.args.multi_repo,
                             call.args.commit_ok, call.args.outcome))

MultiRequest ==
    /\ call.op = "request" /\ call.args.prefix = "/r/"
    /\ ~call.done
    /\ Return(MultiEndpoint(call.args.endpoint, call.args.repo, call.args.multi_repo,
                            call.args.commit_ok, call.args.outcome))

ApiNext == LegacyRequest \/ MultiRequest

SpecApi == ApiInit /\ [][ApiNext]_vars

-----------------------------------------------------------------------------
\* services/fs_service.py: validate_path.  An absolute path is the sequence
\* of its segments.

\* self.root_path: /srv/docs
ROOT_PATH == <<<<115, 114, 118>>, <<100, 111, 99, 115>>>>

\* /srv/shared
SHARED == <<<<115, 114, 118>>, <<115, 104, 97, 114, 101, 100>>>>

\* The symbolic links below the root: out -> /etc, shared -> /srv/shared,
\* gitlink -> /srv/docs/.git.
Symlinks ==
    [l \in {Append(ROOT_PATH, <<111, 117, 116>>), Append(ROOT_PATH, <<115, 104, 97, 114, 101, 100>>),
            Append(ROOT_PATH, <<103, 105, 116, 108, 105, 110, 107>>)} |->
        IF l = Append(ROOT_PATH, <<111, 117, 116>>) THEN <<<<101, 116, 99>>>>
        ELSE IF l = Append(ROOT_PATH, <<115, 104, 97, 114, 101, 100>>) THEN SHARED
        ELSE Append(ROOT_PATH, DOTGIT)]

\* One segment of Path.resolve(): "" and "." stay, ".." goes up, a link is
\* followed.
Step(cur, seg) ==
    IF seg = <<>> \/ seg = <<46>> THEN cur
    ELSE IF seg = <<46, 46>> THEN SubSeq(cur, 1, Len(cur) - 1)
    ELSE IF Append(cur, seg) \in DOMAIN Symlinks THEN Symlinks[Append(cur, seg)]
    ELSE Append(cur, seg)

\* (base / path).resolve()
RECURSIVE Resolve(_, _)
Resolve(cur, segs) ==
    IF segs = <<>> THEN cur ELSE Resolve(Step(cur, Head(segs)), Tail(segs))

\* full_path.relative_to(base) does not raise.
IsRelativeTo(full_path, base) ==
    Len(full_path) >= Len(base) /\ SubSeq(full_path, 1, Len(base)) = base

\* Stand-in for the containment test: every resolved path passes.
Anywhere(full_path, allowed_read_roots) == TRUE

\* "root_path itself, a child of root_path, or under an allowed root"
Contained(full_path, allowed_read_roots) ==
    \/ IsRelativeTo(full_path, ROOT_PATH)
    \/ \E i \in 1..Len(allowed_read_roots) :
           IsRelativeTo(full_path, allowed_read_roots[i])

\* raise ValueError(...)
ValueError(msg) == [ok |-> FALSE, error |-> msg]

ValidatePath(path, allowed_read_roots) ==
    IF path = <<>> \/ 0 \in Range(path) THEN ValueError("Invalid path")
    ELSE IF Head(path) = 47 THEN ValueError("Absolute paths not allowed")
    ELSE IF DOTGIT \in Range(PathParts(path))
    THEN ValueError("Access to .git directory is not allowed")
    ELSE IF ~Contained(Resolve(ROOT_PATH, Split(path, 47)), allowed_read_roots)
    THEN ValueError("Path traversal detected")
    ELSE [ok |-> TRUE, full_path |-> Resolve(ROOT_PATH, Split(path, 47))]

-----------------------------------------------------------------------------
\* Specification of validate_path: one call, with any path of up to
\* MaxParts of these segments, with and without an allowed read root.

\* "" .git .gitignore a.md .. out shared gitlink and a name with a null byte
PathSegments ==
    {<<>>, DOTGIT, <<46, 103, 105, 116, 105, 103, 110, 111, 114, 101>>, P_a, <<46, 46>>, <<111, 117, 116>>, <<115, 104, 97, 114, 101, 100>>,
     <<103, 105, 116, 108, 105, 110, 107>>, <<97, 0>>}

ValidateArgs ==
    [path : {JoinParts(parts) :
                parts \in UNION {[1..n -> PathSegments] : n \in 1..MaxParts}},
     allowed_read_roots : {<<>>, <<SHARED>>}]

ValidateInit ==
    /\ Quiet
    /\ World0
    /\ \E args \in ValidateArgs : call = Entered("validate_path", args)

ValidateCall ==
    /\ call.op = "validate_path"
    /\ ~call.done
    /\ Return(ValidatePath(call.args.path, call.args.allowed_read_roots))

ValidateNext == ValidateCall

SpecValidate == ValidateInit /\ [][ValidateNext]_vars

-----------------------------------------------------------------------------
\* Specification of the aggregator on a cold cache: any state of the disk,
\* the index and the history, any caller's limit, any tool failing.

Limits == (0 - 1)..MaxLimit

\* The status a file can have in the repository that owns it, if any.
GitStatesOf(f) ==
    IF Owner(f) = NoRepo THEN {Untracked}
    ELSE {Untracked, Staged, IntentToAdd, Committed, Unindexed}

\* top.md and A/a.md vary freely; the other files are on disk, B/b.MD with
\* an mtime between the others'.
ScanWorld ==
    /\ gitdirs \in {{ROOT}, {D_A}, {D_A, D_B}, {}}
    /\ exclude_dirs \in ExcludeConfigs
    /\ \E e1, e2 \in BOOLEAN, m1, m2 \in Mtimes :
       \E g1 \in GitStatesOf(1), g2 \in GitStatesOf(2) :
          /\ ~e1 => m1 = MaxMtime
          /\ ~e2 => m2 = MaxMtime
          /\ files = [f \in FileIds |->
                CASE f = 1 -> FileState(e1, m1, g1)
                  [] f = 2 -> FileState(e2, m2, g2)
                  [] f = 3 -> FileState(TRUE, MaxMtime - 1,
                                  IF Owner(f) = NoRepo THEN Untracked ELSE Committed)
                  [] OTHER -> FileState(TRUE, MaxMtime,
                                  IF Owner(f) = NoRepo THEN Untracked ELSE Committed)]

ScanInit == BIdle /\ WIdle /\ AIdle /\ ScanWorld

\* The directories a GitService is created for: the served root and the
\* child repositories.
Targets == {ROOT} \cup {d \in {D_A, D_B} : d \in gitdirs}

ScanRecent ==
    /\ cache = EmptyCache
    /\ \E repo_path \in Targets, limit \in Limits, ls_ok, log_ok, status_ok \in BOOLEAN :
          RecentCall(repo_path, limit, ls_ok, log_ok, status_ok, TRUE)
    /\ UNCHANGED <<bvars, wvars>>

\* clear_recent_files_cache(), as the watcher calls it; the history of the
\* call before it is dropped.
ClearCache ==
    /\ cache # EmptyCache
    /\ cache' = ClearedCache(cache)
    /\ staleKeys' = {}
    /\ last' = NoCall
    /\ UNCHANGED <<bvars, wvars, gitdirs, files, exclude_dirs, call>>

ScanNext == ScanRecent \/ ClearCache

SpecScan == ScanInit /\ [][ScanNext]_vars

-----------------------------------------------------------------------------
\* Specification of the aggregator with a warm cache: calls for the served
\* root and its child repository, a file being rewritten, time passing.

CacheWorld ==
    /\ gitdirs \in {{ROOT}, {D_A}}
    /\ exclude_dirs = DEFAULT_EXCLUDE_DIRS
    /\ files = [f \in FileIds |->
                  FileState(TRUE, MaxMtime - 2,
                            IF Owner(f) = NoRepo THEN Untracked ELSE Committed)]

CacheInit == BIdle /\ WIdle /\ AIdle /\ CacheWorld

CacheLimits == {1, MaxLimit}

CacheRecent ==
    /\ \E repo_path \in Targets, limit \in CacheLimits :
          RecentCall(repo_path, limit, TRUE, TRUE, TRUE, TRUE)
    /\ UNCHANGED <<bvars, wvars>>

\* A/a.md is saved again.
Touch ==
    /\ files[2].mtime < MaxMtime
    /\ files' = [files EXCEPT ![2].mtime = @ + 1]
    /\ UNCHANGED <<bvars, wvars, cache, staleKeys, gitdirs, exclude_dirs, last, call>>

\* Half the TTL goes by.
Elapse ==
    /\ cache # EmptyCache
    /\ cache' = AgedCache(cache, RECENT_FILES_TTL \div 2)
    /\ UNCHANGED <<bvars, wvars, staleKeys, world>>

CacheNext == CacheRecent \/ Touch \/ Elapse \/ ClearCache

SpecCache == CacheInit /\ [][CacheNext]_vars

-----------------------------------------------------------------------------
\* Specification of the watcher next to the aggregator: clients ask for the
\* recent files of the served root while changes are watched.

WatchRecent ==
    /\ RecentCall(ROOT, MaxLimit, TRUE, TRUE, TRUE, FALSE)
    /\ UNCHANGED <<bvars, wvars>>

MarkerOrDoc ==
    /\ \E changes \in {{P_gitindex}, {P_a}} : WatchEvent(changes)
    /\ UNCHANGED world

WCNext == MarkerOrDoc \/ TimerFire \/ BroadcastStep \/ Tick \/ Disconnect \/ WatchRecent

SpecWC == WInit /\ [][WCNext]_vars

-----------------------------------------------------------------------------
\* Specification of the watcher up to and after the shutdown of the
\* application.

\* main.py lifespan, after the yield: watcher_task.cancel() and await
\* watcher_task.  CancelledError is raised in the watch loop where it
\* waits, in awatch or in the broadcast of its own flush; the task that
\* quiet_task holds is another task and is not touched.
Shutdown ==
    /\ main \in {"awatch", "flushing"}
    /\ main' = "cancelled"
    /\ bc' = IF main = "flushing" /\ bc.state = "sending"
             THEN [NoBroadcast EXCEPT !.state = "cancelled"] ELSE bc
    /\ UNCHANGED <<active_connections, handler, bcTrace, bcStart, bcAttempts,
                   bcFailed, bcLeft, pending, batch_elapsed, quiet_task, burst,
                   oldest, mvars, avars>>

ShutNext == WCNext \/ Shutdown

SpecShut == WInit /\ [][ShutNext]_vars

-----------------------------------------------------------------------------
\* Specification of the watcher on a served root that is no repository and
\* holds the repository A: A/a.md is staged and then committed while the
\* root is asked for its recent files.

\* "A/.git/index"
P_childindex == D_A \o <<47>> \o P_gitindex

ChildWorld ==
    /\ gitdirs = {D_A}
    /\ exclude_dirs = DEFAULT_EXCLUDE_DIRS
    /\ files = [f \in FileIds |->
                  FileState(TRUE, MaxMtime, IF f = 2 THEN Staged ELSE Untracked)]

ChildInit ==
    /\ \E k \in 0..NumWatchObservers : Connected(k)
    /\ WIdle
    /\ AIdle
    /\ ChildWorld

\* git commit in A while the loop waits in awatch: the commit rewrites
\* A/.git/index, the watch filter lets the change through and the loop
\* handles it.
ChildCommit ==
    /\ files[2].index /\ ~files[2].log
    /\ files' = [files EXCEPT ![2] = FileState(@.exists, @.mtime, Committed)]
    /\ WatchEvent({P_childindex})
    /\ UNCHANGED <<gitdirs, exclude_dirs, last, call>>

\* A change of top.md reaches the loop.
DocEvent ==
    /\ WatchEvent({F_top})
    /\ UNCHANGED world

ChildNext ==
    ChildCommit \/ DocEvent \/ TimerFire \/ BroadcastStep \/ Tick \/ Disconnect
        \/ WatchRecent

SpecChild == ChildInit /\ [][ChildNext]_vars

-----------------------------------------------------------------------------
\* Specification of get_recently_changed_files with the extensions the
\* caller asks for: [".md"], [".TXT"] or both, at a root that is a
\* repository, a directory of repositories or a plain directory.

ExtensionLists == {<<DOTMD>>, <<DOTTXT_UPPER>>, <<DOTMD, DOTTXT>>}

\* A/a.md and A/n.txt in any state their repository allows.
ExtWorld ==
    /\ gitdirs \in {{ROOT}, {D_A}, {D_A, D_B}, {}}
    /\ exclude_dirs = DEFAULT_EXCLUDE_DIRS
    /\ \E g2 \in GitStatesOf(2), g5 \in GitStatesOf(5) :
          files = [f \in FileIds |->
                     CASE f = 2 -> FileState(TRUE, MaxMtime - 1, g2)
                       [] f = 5 -> FileState(TRUE, MaxMtime - 2, g5)
                       [] OTHER -> FileState(TRUE, MaxMtime,
                                      IF Owner(f) = NoRepo THEN Untracked
                                      ELSE Committed)]

ExtArgs ==
    [repo_path : Targets, limit : {1, MaxLimit, Len(FilePath)},
     extensions : ExtensionLists]

ExtInit ==
    /\ Quiet
    /\ ExtWorld
    /\ \E args \in ExtArgs : call = Entered("get_recently_changed_files", args)

ExtCall ==
    /\ call.op = "get_recently_changed_files"
    /\ ~call.done
    /\ Return(RecentFor(call.args.repo_path, call.args.limit, call.args.extensions))

ExtNext == ExtCall

SpecExt == ExtInit /\ [][ExtNext]_vars

-----------------------------------------------------------------------------
\* Which services act as containers: the directories A, A/sub, B and dist
\* below the served root, any of them with a .git entry (markers), any
\* .git entry one that cannot be opened as a repository (broken).

D_Asub == D_A \o <<47, 115, 117, 98>>
D_dist == <<100, 105, 115, 116>>

\* The directories in the order os.scandir lists them, and where they lie.
SubDirs == <<D_A, D_Asub, D_B, D_dist>>
ParentOf(d) == IF d = D_Asub THEN D_A ELSE ROOT
NameOf(d) == Parts(d)[Len(Parts(d))]

\* GitService.__init__: Repo(repo_path, search_parent_directories=True)
\* binds the nearest directory, from repo_path upwards, whose .git can be
\* opened; when there is none it raises and self.repo is None.
RECURSIVE RepoOf(_, _, _)
RepoOf(path, markers, broken) ==
    IF path \in markers \ broken THEN path
    ELSE IF path = ROOT THEN NoRepo
    ELSE RepoOf(ParentOf(path), markers, broken)

\* _discover_child_git_repos: the directories right below path that are
\* not hidden, not excluded and hold a .git entry.
ChildGitRepos(path, markers) ==
    SelectSeq(SubDirs, LAMBDA d :
        /\ ParentOf(d) = path
        /\ ~StartsWith(NameOf(d), <<46>>)
        /\ NameOf(d) \notin exclude_dirs
        /\ d \in markers)

\* The delegations of one call of get_recently_changed_files on a cold
\* cache, as pairs <<container, child>>: a service without a repository
\* that finds child repositories calls a new GitService for each, and each
\* of these calls goes the same way.
RECURSIVE Delegations(_, _, _)
RECURSIVE DelegationsOf(_, _, _, _)
DelegationsOf(path, children, markers, broken) ==
    IF children = <<>> THEN {}
    ELSE {<<path, Head(children)>>}
         \cup Delegations(Head(children), markers, broken)
         \cup DelegationsOf(path, Tail(children), markers, broken)

Delegations(path, markers, broken) ==
    IF RepoOf(path, markers, broken) # NoRepo THEN {}
    ELSE DelegationsOf(path, ChildGitRepos(path, markers), markers, broken)

DepthArgs ==
    {a \in [repo_path : {ROOT, D_A}, markers : SUBSET ({ROOT} \cup Range(SubDirs)),
            broken : SUBSET ({ROOT} \cup Range(SubDirs))] :
        a.broken \subseteq a.markers}

DepthInit ==
    /\ Quiet
    /\ World0
    /\ \E args \in DepthArgs : call = Entered("_get_recent_files_from_child_repos", args)

DepthCall ==
    /\ call.op = "_get_recent_files_from_child_repos"
    /\ ~call.done
    /\ Return(Delegations(call.args.repo_path, call.args.markers, call.args.broken))

DepthNext == DepthCall

SpecDepth == DepthInit /\ [][DepthNext]_vars

-----------------------------------------------------------------------------
\* Specification of the walks of a repository at the served root when the
\* walk of A, of B, of both or of neither raises: top.md, A/a.md and
\* B/b.MD in any git state.

WalkWorld ==
    /\ gitdirs = {ROOT}
    /\ exclude_dirs = DEFAULT_EXCLUDE_DIRS
    /\ \E g1 \in GitStatesOf(1), g2 \in GitStatesOf(2), g3 \in GitStatesOf(3) :
          files = [f \in FileIds |->
                     CASE f = 1 -> FileState(TRUE, MaxMtime, g1)
                       [] f = 2 -> FileState(TRUE, MaxMtime - 1, g2)
                       [] f = 3 -> FileState(TRUE, MaxMtime - 2, g3)
                       [] OTHER -> FileState(TRUE, MaxMtime, Committed)]

WalkArgs == [limit : {1, Len(FilePath)}, failed_dirs : SUBSET {D_A, D_B}]

WalkInit ==
    /\ Quiet
    /\ WalkWorld
    /\ \E args \in WalkArgs : call = Entered("_walk_subdir", args)

WalkCall ==
    /\ call.op = "_walk_subdir"
    /\ ~call.done
    /\ Return(GitScanFailing(ROOT, call.args.limit, call.args.failed_dirs))

WalkNext == WalkCall

SpecWalk == WalkInit /\ [][WalkNext]_vars

-----------------------------------------------------------------------------
\* Specification of a file's life next to the aggregator: top.md and A/a.md
\* start out never added, are staged and committed while clients ask for
\* recent files, the cache ages and is invalidated.

LifeWorld ==
    /\ gitdirs \in {{ROOT}, {D_A}, {D_A, D_B}}
    /\ exclude_dirs = DEFAULT_EXCLUDE_DIRS
    /\ files = [f \in FileIds |->
                  FileState(TRUE, MaxMtime - 1,
                            IF Owner(f) = NoRepo \/ f \in {1, 2}
                            THEN Untracked ELSE Committed)]

LifeInit == BIdle /\ WIdle /\ AIdle /\ LifeWorld

LifeRecent ==
    /\ \E repo_path \in Targets :
          RecentCall(repo_path, MaxLimit, TRUE, TRUE, TRUE, TRUE)
    /\ UNCHANGED <<bvars, wvars>>

\* git add, plain or with -N, of a file never added.
GitAdd ==
    /\ \E f \in {1, 2}, git \in {Staged, IntentToAdd} :
          /\ Owner(f) # NoRepo
          /\ ~files[f].index /\ ~files[f].log
          /\ files' = [files EXCEPT ![f] = FileState(@.exists, @.mtime, git)]
    /\ UNCHANGED <<bvars, wvars, cache, staleKeys, gitdirs, exclude_dirs, last, call>>

\* git commit of a file in the index.
GitCommit ==
    /\ \E f \in {1, 2} :
          /\ files[f].index /\ ~files[f].log
          /\ files' = [files EXCEPT ![f] = FileState(@.exists, @.mtime, Committed)]
    /\ UNCHANGED <<bvars, wvars, cache, staleKeys, gitdirs, exclude_dirs, last, call>>

\* clear_recent_files_cache(), the history of the calls kept; the keys that
\* had an entry are remembered.
Invalidate ==
    /\ cache # EmptyCache
    /\ cache' = ClearedCache(cache)
    /\ staleKeys' = DOMAIN cache
    /\ UNCHANGED <<bvars, wvars, world>>

LifeNext == LifeRecent \/ GitAdd \/ GitCommit \/ Touch \/ Elapse \/ Invalidate

SpecLife == LifeInit /\ [][LifeNext]_vars

-----------------------------------------------------------------------------
\* C1: the records of every result are in non-increasing order of the
\* instants their date fields denote.
C1_SortedByTimestamp ==
    \A i, j \in 1..Len(last.results) :
        i < j => ~StrLess(FromIsoFormat(last.results[i].date),
                          FromIsoFormat(last.results[j].date))

\* A container's result: a tracked record of the child repository among
\* untracked loose files, three records, not all of one date.
C1_Witness ==
    /\ last.repo_path = ROOT
    /\ gitdirs = {D_A}
    /\ Len(last.results) >= 3
    /\ \E i \in 1..Len(last.results) : ~last.results[i].untracked
    /\ \E i \in 1..Len(last.results) : last.results[i].untracked
    /\ last.results[1].date # last.results[3].date

\* C2: a result is never longer than the limit the caller passed.
C2_LengthAtMostLimit == Len(last.results) <= last.limit

\* C3: no two records of a result have the same path.
C3_NoDuplicatePaths ==
    \A i, j \in 1..Len(last.results) :
        i # j => last.results[i].path # last.results[j].path

\* A path that two sources named is in the result.
C3_Witness ==
    \E i, j \in 1..Len(last.reported) :
        /\ i # j
        /\ last.reported[i] = last.reported[j]
        /\ \E k \in 1..Len(last.results) : last.results[k].path = last.reported[i]

C5_NoStarvation ==
    /\ pending # {} => oldest # None
    /\ oldest # None => oldest <= MAX_WAIT_S + QUIET_PERIOD_S

\* A batch was flushed by the event that found the deadline passed.
C5_Witness ==
    /\ main = "flushing"
    /\ bc.owner = "main"
    /\ pending = {}
    /\ oldest = None
    /\ Len(bc.msg.paths) >= 2

\* C8: when a broadcast completes, a send was attempted to every observer
\* that was in the list when it started and did not itself disconnect
\* meanwhile, whether or not a send to another observer raised, and the
\* completion removes exactly the observers whose send raised.
C8_PartialFailureIsolation ==
    [][(bc.state = "sending" /\ bc'.state = "done") =>
          /\ \A o \in bcStart' \ bcLeft' : bcAttempts'[o] >= 1
          /\ Range(active_connections') = Range(active_connections) \ bcFailed'
      ]_vars

\* C9: when a broadcast has completed, every observer that was registered
\* when it started and was not unregistered by its own handler while it ran
\* has been sent the message exactly once.
C9_SafeUnderInterleaving ==
    bc.state = "done" => \A o \in bcStart \ bcLeft : bcAttempts[o] = 1

\* C6: a run of events that name nothing but the state marker waits in
\* pending under an armed timer, and the flush of a batch that holds nothing
\* but the marker empties the cache, observers or not, and calls broadcast
\* with a message that lists the marker.
C6_MarkerAloneFlushes ==
    /\ [](burst.ok /\ burst.phase = "open" /\ burst.paths = {P_gitindex} =>
            P_gitindex \in pending /\ quiet_task.state = "sleeping")
    /\ [][(pending # {} /\ pending \subseteq {P_gitindex} /\ pending' = {}) =>
             /\ cache' = EmptyCache
             /\ bc'.state \in {"sending", "skipped"}
             /\ bc'.state = "sending" => P_gitindex \in Range(bc'.msg.paths)
         ]_vars

\* With nobody connected, a run of one path was flushed and the flush
\* emptied a cache that held an entry.
C6_Witness ==
    /\ burst.ok /\ burst.phase = "closed" /\ burst.size = 1
    /\ staleKeys # {}
    /\ cache = EmptyCache
    /\ bc.state = "skipped"
    /\ active_connections = <<>>

\* C7: while the notification of a batch with the state marker is being
\* sent, no cache entry stored before the flush is left.
C7_ClearedBeforeSend ==
    (bc.state = "sending" /\ P_gitindex \in Range(bc.msg.paths)) =>
        staleKeys \cap DOMAIN cache = {}

C7_Witness ==
    /\ bc.state = "sending"
    /\ P_gitindex \in Range(bc.msg.paths)
    /\ staleKeys # {}
    /\ cache = EmptyCache

\* C10: a call that finds an entry of its key younger than the TTL returns
\* the entry's results, scans nothing and leaves the entry alone; any other
\* call scans, and leaves under its key an entry of age 0 that holds what it
\* returns.
C10_TTLCache ==
    last # NoCall =>
        IF last.prior # NoEntry /\ last.prior.age < RECENT_FILES_TTL
        THEN /\ last.results = last.prior.data
             /\ last.scans = {}
             /\ last.after = last.prior
        ELSE /\ last.repo_path \in last.scans
             /\ last.after = [age |-> 0, data |-> last.results]

\* A hit half a TTL after the store returned the stored records although
\* A/a.md had been saved twice since.
C10_Witness ==
    /\ last.prior # NoEntry
    /\ last.prior.age \in 1..(RECENT_FILES_TTL - 1)
    /\ last.scans = {}
    /\ files[2].mtime = MaxMtime
    /\ Len(last.results) >= 2
    /\ \A i \in 1..Len(last.results) : last.results[i].date = DateOf[MaxMtime - 2]

\* The records of a result that carry a path.
RecordsAt(rs, path) == {rs[i] : i \in {j \in 1..Len(rs) : rs[j].path = path}}

\* C11: a call that follows a call of the same root, limit and extensions
\* and finds the entry of its key younger than the TTL returns the very
\* records, in the very order, that the call before it returned.
C11_Idempotence ==
    (last.before # <<>> /\ last.prior # NoEntry /\ last.prior.age < RECENT_FILES_TTL) =>
        last.results = last.before[1]

\* The second of two calls for the served root was made after A/a.md had
\* been committed, and still reports it as never committed.
C11_Witness ==
    /\ last.repo_path = ROOT
    /\ last.before # <<>>
    /\ last.prior # NoEntry /\ last.prior.age < RECENT_FILES_TTL
    /\ last.at[2].log
    /\ \E r \in RecordsAt(last.results, F_Aa) : r.untracked
    /\ last.results = last.before[1]

\* The records of a result of repo_path say of every file they name what
\* the disk and the history fs say of it: its mtime, and whether it has a
\* commit.
ReflectsWorld(rs, repo_path, fs) ==
    \A i \in 1..Len(rs) :
        \E f \in FileIds :
            /\ rs[i].path = RelativeTo(FilePath[f], repo_path)
            /\ fs[f].exists
            /\ rs[i].date = DateOf[fs[f].mtime]
            /\ rs[i].untracked = ~fs[f].log

SeenByLast(f) == SeenFrom[exclude_dirs][last.repo_path][f]

\* File f was on disk below the root of the last call with a matching
\* extension and no hidden or excluded directory on its way.
Visible(f) ==
    /\ last.at[f].exists
    /\ SeenByLast(f).below
    /\ SeenByLast(f).matches
    /\ SeenByLast(f).reaches

\* A record without git information.
Bare(r) == r.untracked /\ r.author_name = "" /\ r.message = "" /\ r.hexsha = ""

\* The limit left no room for file f: the result is full and none of its
\* records is older than the file.
CutOff(f) ==
    \/ last.limit < 0
    \/ /\ Len(last.results) = last.limit
       /\ \A i \in 1..Len(last.results) :
              last.results[i].date \in {DateOf[m] : m \in last.at[f].mtime..MaxMtime}

\* C13: a visible file without a commit in the log, whether never added,
\* staged or added with intent to add, has a record in the result unless
\* the limit left no room for it, and its record is without git information.
C13_UncommittedIsUntracked ==
    last # NoCall =>
        \A f \in FileIds :
            (Visible(f) /\ ~last.at[f].log) =>
                /\ \A r \in RecordsAt(last.results, SeenByLast(f).rel) : Bare(r)
                /\ RecordsAt(last.results, SeenByLast(f).rel) # {} \/ CutOff(f)

\* In a repository at the served root, staged top.md and intent-to-add
\* A/a.md are both in the result, without git information.
C13_Witness ==
    /\ last.repo_path = ROOT /\ gitdirs = {ROOT}
    /\ last.at[1].exists /\ last.at[1].index /\ ~last.at[1].ita /\ ~last.at[1].log
    /\ last.at[2].exists /\ last.at[2].ita /\ ~last.at[2].log
    /\ \E r \in RecordsAt(last.results, F_top) : Bare(r)
    /\ \E r \in RecordsAt(last.results, F_Aa) : Bare(r)

\* The record of the newest commit of f's repository for f, as the last
\* call's service names and dates it.
NewestRecord(f) ==
    TrackedRecord(SeenByLast(f).rel, last.at[f].mtime, CommitsOf(Owner(f))[1])

UncutGitCall ==
    /\ last # NoCall
    /\ WorkingDir(last.repo_path) # NoRepo
    /\ Cardinality(Range(last.reported)) <= last.limit

\* The number of records the last result has for file f.
Occurrences(f) ==
    Cardinality({i \in 1..Len(last.results) : last.results[i].path = SeenByLast(f).rel})

\* File f was on disk below the root of the last call, with a matching
\* extension, as a member of the tracked set.
TrackedMember(f) ==
    /\ last.at[f].exists
    /\ SeenByLast(f).below
    /\ SeenByLast(f).matches
    /\ Owner(f) = WorkingDir(last.repo_path)
    /\ last.at[f].index

\* C15 as stated: the uncut result of a call inside a repository has
\* exactly one record for every matching file of the tracked set that is
\* on disk, and for every matching file on disk that is not under an
\* excluded directory.
C15_AsStated ==
    UncutGitCall =>
        \A f \in FileIds :
            (TrackedMember(f) \/ Visible(f)) => Occurrences(f) = 1

\* C15: the uncut result of a call inside a repository has exactly one
\* record for every matching file on disk, tracked or not, that has no
\* hidden or excluded directory on its way.
C15_Completeness ==
    UncutGitCall =>
        \A f \in FileIds : Visible(f) => Occurrences(f) = 1

\* An uncut result of the repository at the served root holds never-added
\* top.md, staged A/a.md and committed B/b.MD, and has no record for
\* dist/d.md, which is committed and on disk.
C15_Witness ==
    /\ UncutGitCall
    /\ last.repo_path = ROOT
    /\ exclude_dirs = DEFAULT_EXCLUDE_DIRS
    /\ ~last.at[1].index /\ ~last.at[1].log /\ Occurrences(1) = 1
    /\ last.at[2].index /\ ~last.at[2].ita /\ ~last.at[2].log /\ Occurrences(2) = 1
    /\ last.at[3].log /\ Occurrences(3) = 1
    /\ TrackedMember(4) /\ Occurrences(4) = 0

\* C16: every record of a result is dated with the mtime of the file it
\* names, not with a commit's authoring time; it has an author, a message
\* or a hexsha only if it is tracked and the log has a commit for the file;
\* and a tracked record has a hexsha.
C16_RecordInvariant ==
    \A i \in 1..Len(last.results) :
        \E f \in FileIds :
            /\ SeenByLast(f).below
            /\ last.results[i].path = SeenByLast(f).rel
            /\ last.results[i].date = DateOf[last.at[f].mtime]
            /\ ~Bare(last.results[i]) =>
                  ~last.results[i].untracked /\ last.at[f].log
            /\ ~last.results[i].untracked => last.results[i].hexsha # ""

\* A result with a record without git information and a tracked record
\* whose file was written after the commit was authored.
C16_Witness ==
    /\ \E i \in 1..Len(last.results) : Bare(last.results[i])
    /\ \E i \in 1..Len(last.results) :
          /\ ~last.results[i].untracked
          /\ last.results[i].hexsha # ""
          /\ last.results[i].author_name # ""
          /\ last.results[i].date = DateOf[MaxMtime]
          /\ last.results[i].date # DateOf[MaxMtime - 2]

\* The last call was made for a served root without a repository of its
\* own that has child repositories.
ContainerCall ==
    /\ last # NoCall
    /\ last.repo_path = ROOT
    /\ WorkingDir(ROOT) = NoRepo
    /\ DiscoverChildGitRepos(ROOT) # <<>>

\* C17: in the result of a container every record names a file by its path
\* from the served root, the child's name in front once; a tracked record
\* names a file with a commit in its own child repository and carries the
\* hexsha, author and message of that repository's newest commit, and
\* every other record is without git information.
C17_ChildIsolation ==
    ContainerCall =>
        \A i \in 1..Len(last.results) :
            \E f \in FileIds :
                /\ last.results[i].path = FilePath[f]
                /\ last.results[i].untracked => Bare(last.results[i])
                /\ ~last.results[i].untracked =>
                      /\ Owner(f) \in {D_A, D_B}
                      /\ last.at[f].log
                      /\ last.results[i] =
                            [NewestRecord(f) EXCEPT !.date = last.results[i].date]

\* A container result with A/a.md of A's newest commit and B/b.MD of B's,
\* the records of A served from A's cache entry and those of B scanned.
C17_Witness ==
    /\ ContainerCall
    /\ last.scans = {ROOT, D_B}
    /\ \E r \in RecordsAt(last.results, F_Aa) : r.hexsha = "a2" /\ r.author_name = "ann"
    /\ \E r \in RecordsAt(last.results, F_Bb) : r.hexsha = "b2" /\ r.author_name = "bob"

\* The last call was made for a served root that is in no repository.
UnversionedCall ==
    /\ last # NoCall
    /\ last.repo_path = ROOT
    /\ WorkingDir(ROOT) = NoRepo

\* C18: in the result for a served root without a repository, a visible
\* file that no child repository owns has a record unless the limit left no
\* room for it, and its record is without git information.
C18_LooseFilesUntracked ==
    UnversionedCall =>
        \A f \in FileIds :
            (Visible(f) /\ Owner(f) = NoRepo) =>
                /\ \A r \in RecordsAt(last.results, FilePath[f]) : Bare(r)
                /\ RecordsAt(last.results, FilePath[f]) # {} \/ CutOff(f)

\* Next to the child repository A, top.md of the served root and B/b.MD of
\* a directory without repository are in the result, without git
\* information.
C18_Witness ==
    /\ UnversionedCall
    /\ gitdirs = {D_A}
    /\ \E r \in RecordsAt(last.results, F_top) : Bare(r)
    /\ \E r \in RecordsAt(last.results, F_Bb) : Bare(r)
    /\ \E r \in RecordsAt(last.results, F_Aa) : ~r.untracked

\* C19: no record of a result has a path with a segment that is in the
\* configured exclude_dirs, whatever the source of the record; and a file
\* whose directories are not in the configured set (nor hidden) has a
\* record unless the limit left no room for it.
C19_ExcludedDirs ==
    last # NoCall =>
        /\ \A i \in 1..Len(last.results) :
              \A k \in 1..Len(Parts(last.results[i].path)) :
                  Parts(last.results[i].path)[k] \notin exclude_dirs
        /\ \A f \in FileIds :
              Visible(f) =>
                  RecordsAt(last.results, SeenByLast(f).rel) # {} \/ CutOff(f)

\* With exclude_dirs = ["B"], the repository at the served root returns
\* committed dist/d.md and nothing of B, though B/b.MD is committed and on
\* disk.
C19_Witness ==
    /\ exclude_dirs = CUSTOM_EXCLUDE_DIRS
    /\ last.repo_path = ROOT /\ gitdirs = {ROOT}
    /\ \E r \in RecordsAt(last.results, F_dist) : ~r.untracked
    /\ last.at[3].exists /\ last.at[3].log
    /\ RecordsAt(last.results, F_Bb) = {}
    /\ Len(last.results) < last.limit

\* No flush() is under way.
FlushOver == quiet_task.state # "flushing" /\ main # "flushing"

\* C20: when a flush of the watcher of several repositories is over, it
\* has handed to broadcast one message for each repository of its
\* snapshot, with the repository's name and its pending paths in ascending
\* order, and nothing else.
C20_FlushEmitsAll ==
    FlushOver => emitted = Messages(flushed)

\* The filter has returned for a path.
Filtered == call.op = "_GitAwareFilter" /\ call.done

\* The path is a state file right below a ".git" that lies under no other
\* ".git".
StateFileBelowGit(parts) ==
    /\ Len(parts) >= 2
    /\ parts[Len(parts)] \in GIT_STATE_FILES
    /\ parts[Len(parts) - 1] = DOTGIT
    /\ \A i \in 1..(Len(parts) - 2) : parts[i] # DOTGIT

\* C21: of a path with a ".git" component the filter accepts exactly the
\* five state files right below ".git"; any other path it accepts unless
\* the default filter rejects it.
C21_WatchFilter ==
    Filtered =>
        IF \E i \in 1..Len(Split(call.args, 47)) : Split(call.args, 47)[i] = DOTGIT
        THEN call.ret <=> StateFileBelowGit(Split(call.args, 47))
        ELSE call.ret <=> DefaultFilter(call.args)

\* .git/refs/HEAD was rejected.
C21_Witness ==
    /\ Filtered
    /\ Split(call.args, 47) = <<DOTGIT, <<114, 101, 102, 115>>, STR_HEAD>>
    /\ ~call.ret

\* C22: a call inside a repository returns a result whichever of git
\* ls-files, git log and git status fail.  A failed log leaves no record
\* with an author, a message or a hexsha; a failed ls-files leaves no
\* tracked set, so that every file the walk reaches is reported without git
\* information; and the sources that are left still report: an uncut result
\* has one record for every visible file, and with ls-files and the log at
\* hand the record of a committed file carries its commit.
C22_ToolFailures ==
    (last # NoCall /\ WorkingDir(last.repo_path) # NoRepo) =>
        /\ "log" \in last.failed =>
               \A i \in 1..Len(last.results) : Bare(last.results[i])
        /\ "ls-files" \in last.failed =>
               \A f \in FileIds : Visible(f) =>
                   \A r \in RecordsAt(last.results, SeenByLast(f).rel) : Bare(r)
        /\ UncutGitCall =>
               \A f \in FileIds : Visible(f) =>
                   /\ RecordsAt(last.results, SeenByLast(f).rel) # {}
                   /\ ({"ls-files", "log"} \cap last.failed = {}
                          /\ last.at[f].index /\ last.at[f].log) =>
                         \A r \in RecordsAt(last.results, SeenByLast(f).rel) :
                             ~r.untracked /\ r.hexsha # ""

\* git log and git status failed in a call on the repository at the served
\* root: committed B/b.MD is reported without git information, next to
\* never-added top.md.
C22_Witness ==
    /\ last.repo_path = ROOT /\ ROOT \in gitdirs
    /\ last.failed = {"log", "status"}
    /\ UncutGitCall
    /\ last.at[3].log /\ Visible(3)
    /\ \E r \in RecordsAt(last.results, SeenByLast(3).rel) : Bare(r)
    /\ \E r \in RecordsAt(last.results, SeenByLast(1).rel) : Bare(r)

\* The call of op has returned.
Done(op) == call.op = op /\ call.done

\* The most recent MaxCount revisions of the log that the service of the
\* returned call reads.
Window == MaxCountOf(LogIn(WorkingDir(call.args.repo_path), call.args.history), MaxCount)

\* The positions in the window of the revisions whose file list has path.
Naming(path) ==
    {k \in 1..Len(Window) :
        GetRepoRelativePath(call.args.repo_path, path) \in Range(Window[k].names)}

\* The child repository that owns the first segment of path, if any.
OwningChild(path) ==
    IF Len(Split(path, 47)) >= 2 /\ Split(path, 47)[1] \in gitdirs
    THEN Split(path, 47)[1] ELSE NoRepo

\* C23: inside a repository get_last_commits_batch maps a requested path
\* to the newest revision of the window that names it, which is the one
\* get_last_commit reports, and has no entry for a path that no revision of
\* the window names; at a root that is no repository a path has an entry if
\* and only if a child repository owns its first segment and has a revision
\* for it, and the entry is that child's newest such revision.
C23_LastCommitsBatch ==
    Done("get_last_commits_batch") =>
        /\ DOMAIN call.ret \subseteq Range(call.args.paths)
        /\ \A p \in Range(call.args.paths) :
              IF WorkingDir(call.args.repo_path) # NoRepo
              THEN /\ p \in DOMAIN call.ret <=> Naming(p) # {}
                   /\ p \in DOMAIN call.ret =>
                         /\ \A k \in Naming(p) : call.ret[p].hexsha[2] <= Window[k].hexsha[2]
                         /\ \E k \in Naming(p) : call.ret[p] = Summary(Window[k])
                         /\ <<call.ret[p]>> = GetLastCommit(call.args.repo_path, p,
                                                           call.args.history)
              ELSE /\ p \in DOMAIN call.ret <=>
                         /\ OwningChild(p) # NoRepo
                         /\ GetLastCommit(call.args.repo_path, p, call.args.history) # <<>>
                   /\ p \in DOMAIN call.ret =>
                         /\ call.ret[p].hexsha[1] = OwningChild(p)
                         /\ <<call.ret[p]>> = GetLastCommit(call.args.repo_path, p,
                                                           call.args.history)

\* top.md, A/a.md and B/b.MD were asked of the repository at the root, whose
\* newest two revisions name A/a.md and whose third names top.md: the
\* result has the newest revision for A/a.md and nothing else, though
\* get_last_commit finds a revision for top.md.
C23_Witness ==
    /\ Done("get_last_commits_batch")
    /\ gitdirs = {ROOT}
    /\ call.args.paths = <<F_top, F_Aa, F_Bb>>
    /\ call.args.history = <<{2}, {2, 5}, {1}>>
    /\ DOMAIN call.ret = {F_Aa}
    /\ call.ret[F_Aa].hexsha = <<ROOT, 1>>
    /\ GetLastCommit(ROOT, F_top, call.args.history) # <<>>

\* The positions in the history of the revisions that name path, or a file
\* below it, in repository wd.
Touching(wd, path) ==
    {k \in 1..Len(call.args.history) :
        \E f \in call.args.history[k] :
            /\ Owner(f) = wd
            /\ \/ FilePath[f] = Join(call.args.repo_path, path)
               \/ StartsWith(FilePath[f], Join(call.args.repo_path, path) \o <<47>>)}

\* The repository get_history reads for the path of the returned call.
HistoryRepo ==
    IF WorkingDir(call.args.repo_path) # NoRepo THEN WorkingDir(call.args.repo_path)
    ELSE OwningChild(call.args.path)

\* C24: get_history returns at most limit summaries, newest first: the
\* newest revisions that touch the path in the repository of the service
\* or, at a root that is no repository, in the child repository named by
\* the first segment of the path; without such a child, as for a top-level
\* file, it returns the empty sequence.
C24_History ==
    Done("get_history") =>
        /\ Len(call.ret) <= call.args.limit
        /\ HistoryRepo = NoRepo => call.ret = <<>>
        /\ \A i \in 1..Len(call.ret) :
              /\ call.ret[i].hexsha[1] = HistoryRepo
              /\ call.ret[i].hexsha[2] \in Touching(HistoryRepo, call.args.path)
              /\ \A k \in Touching(HistoryRepo, call.args.path) :
                     k < call.ret[i].hexsha[2] =>
                         \E j \in 1..(i - 1) : call.ret[j].hexsha[2] = k
        /\ HistoryRepo # NoRepo =>
              \/ Len(call.ret) = call.args.limit
              \/ Len(call.ret) = Cardinality(Touching(HistoryRepo, call.args.path))

\* The root is no repository and A is one with three revisions of A/a.md:
\* the history of A/a.md with limit 2 is A's newest two revisions.
C24_Witness ==
    /\ Done("get_history")
    /\ gitdirs = {D_A, D_B}
    /\ call.args.repo_path = ROOT /\ call.args.path = F_Aa /\ call.args.limit = 2
    /\ Cardinality(Touching(D_A, F_Aa)) = 3
    /\ Len(call.ret) = 2
    /\ call.ret[1].hexsha = <<D_A, 1>> /\ call.ret[2].hexsha = <<D_A, 2>>

\* A request was answered in daemon mode.
AnsweredInDaemonMode == Done("request") /\ call.args.multi_repo

\* C25 as stated: in daemon mode nothing is served from the default
\* directory, the eight endpoints without a repository name answer 404 (or
\* 400 for an invalid commit), an endpoint of a repository that is not
\* configured answers 404, and one of a configured repository is served
\* from the root of that repository only.
C25_AsStated ==
    AnsweredInDaemonMode =>
        /\ call.ret.root # TARGET_REPO
        /\ call.args.prefix = "" /\ call.args.endpoint \in LegacyEndpoints =>
              /\ call.ret.root = "none"
              /\ \/ call.ret.status = 404
                 \/ call.ret.status = 400 /\ ~call.args.commit_ok
        /\ call.args.prefix = "/r/" /\ GetRepo(call.args.repo) = <<>> =>
              call.ret.root = "none" /\ call.ret.status = 404
        /\ call.args.prefix = "/r/" /\ GetRepo(call.args.repo) # <<>> =>
              call.ret.root \in {"none", GetRepo(call.args.repo)[1]}

\* C25: in daemon mode nothing is served from the default directory: the
\* eight endpoints without a repository name answer 404, an endpoint of a
\* repository that is not configured answers 404, or 400 when it is
\* /git/diff with an invalid commit, and an endpoint of a configured
\* repository is served from the root of that repository or, for an
\* invalid commit, not at all.
C25_DaemonMode ==
    AnsweredInDaemonMode =>
        /\ call.ret.root # TARGET_REPO
        /\ call.args.prefix = "" /\ call.args.endpoint \in LegacyEndpoints =>
              call.ret.root = "none" /\ call.ret.status = 404
        /\ call.args.prefix = "/r/" /\ GetRepo(call.args.repo) = <<>> =>
              /\ call.ret.root = "none"
              /\ IF call.args.commit_ok THEN call.ret.status = 404
                 ELSE call.ret.status = 400
        /\ call.args.prefix = "/r/" /\ GetRepo(call.args.repo) # <<>> =>
              IF call.args.commit_ok
              THEN call.ret.root = GetRepo(call.args.repo)[1]
              ELSE call.ret.root = "none" /\ call.ret.status = 400

\* /r/nonexistent/git/diff with an invalid commit was answered 400 in
\* daemon mode.
C25_Witness ==
    /\ AnsweredInDaemonMode
    /\ call.args.prefix = "/r/" /\ call.args.repo = "nonexistent"
    /\ call.args.endpoint = "/git/diff" /\ ~call.args.commit_ok
    /\ call.ret = HTTPException(400)

\* C26: a path validate_path returns lies, resolved, inside the root of
\* the service or inside an allowed read root; the empty path, a path with
\* a null byte, a path that starts with "/" and a path with a segment
\* ".git" are rejected; .gitignore is accepted.
C26_ValidatePath ==
    Done("validate_path") =>
        /\ call.ret.ok =>
              \/ IsRelativeTo(call.ret.full_path, ROOT_PATH)
              \/ \E i \in 1..Len(call.args.allowed_read_roots) :
                     IsRelativeTo(call.ret.full_path, call.args.allowed_read_roots[i])
        /\ call.ret.ok => call.ret.full_path \notin DOMAIN Symlinks
        /\ (\/ call.args.path = <<>>
            \/ \E i \in 1..Len(call.args.path) : call.args.path[i] = 0
            \/ (call.args.path # <<>> /\ call.args.path[1] = 47)
            \/ \E i \in 1..Len(Split(call.args.path, 47)) :
                   Split(call.args.path, 47)[i] = DOTGIT) => ~call.ret.ok
        /\ call.args.path = <<46, 103, 105, 116, 105, 103, 110, 111, 114, 101>> =>
              call.ret = [ok |-> TRUE, full_path |-> Append(ROOT_PATH, <<46, 103, 105, 116, 105, 103, 110, 111, 114, 101>>)]

\* With /srv/shared as an allowed read root, shared/a.md, which goes
\* through a link, is returned as /srv/shared/a.md, outside the root.
C26_Witness ==
    /\ Done("validate_path")
    /\ call.args.allowed_read_roots = <<SHARED>>
    /\ call.args.path = JoinParts(<<<<115, 104, 97, 114, 101, 100>>, P_a>>)
    /\ call.ret = [ok |-> TRUE, full_path |-> Append(SHARED, P_a)]

\* C27: when the log was read, a visible file with a commit in it has only
\* tracked records, with the author, message and hexsha of the log,
\* whether or not the walk or the intent-to-add pass reported its path as
\* well.
C27_TrackedWins ==
    (last # NoCall /\ WorkingDir(last.repo_path) # NoRepo /\ "log" \notin last.failed) =>
        \A f \in FileIds :
            (/\ Visible(f)
             /\ last.at[f].log
             /\ Owner(f) = WorkingDir(last.repo_path)) =>
                \A r \in RecordsAt(last.results, SeenByLast(f).rel) :
                    /\ ~r.untracked
                    /\ r.hexsha = CommitsOf(Owner(f))[1].hexsha
                    /\ r.message = CommitsOf(Owner(f))[1].message

\* C28: whatever calls were made before it, on the container or on the
\* child, a call on a child repository returns records whose paths are
\* relative to the root of the child, as they were when it produced them.
C28_RecordsImmutable ==
    (last # NoCall /\ last.repo_path \in {D_A, D_B}) =>
        \A i \in 1..Len(last.results) :
            \E f \in FileIds :
                /\ SeenByLast(f).below
                /\ last.results[i].path = SeenByLast(f).rel

\* C29: a broadcast begun by a flush runs to its end: it is never cut short
\* by the handling of an event, so that every connection registered when
\* it began and still registered has been sent the notification of the
\* paths taken from pending.
C29_FlushNotInterrupted ==
    bc.state # "cancelled"

\* The paths pending for repository name in the dict d.
PendingOf(d, name) == UNION {d[i].paths : i \in {j \in 1..Len(d) : d[j].repo = name}}

\* C30: while paths of a repository wait for their quiet timer, a step
\* that accepts a path of another repository and none of this one leaves
\* the timer as it is, with the time it has left, and leaves the time
\* since the batch began.
C30_PerRepoDebounce ==
    [][\A name \in {REPO_docs, REPO_blog} :
           (/\ PendingOf(mpending, name) # {}
            /\ quiet_task.state = "sleeping"
            /\ mpending' # <<>>
            /\ mpending' # mpending
            /\ PendingOf(mpending', name) = PendingOf(mpending, name)) =>
               quiet_task' = quiet_task /\ batch_elapsed' = batch_elapsed]_vars

\* A path below the .git directory of the watched root.
BelowDotGit(path) == Split(path, 47)[1] = DOTGIT

\* C40: a flush of paths none of which is a state marker leaves the cache
\* as it is: the timer's flush of the pending set, and any flush whose
\* notification lists no path below .git.
C40_DocsKeepCache ==
    [][/\ (/\ quiet_task.state = "sleeping" /\ quiet_task.left = 0
           /\ quiet_task'.state \in {"done", "flushing"}
           /\ pending # {}
           /\ \A p \in pending : ~BelowDotGit(p)) => cache' = cache
       /\ (/\ bc'.state = "sending" /\ bc.state # "sending"
           /\ \A i \in 1..Len(bc'.msg.paths) : ~BelowDotGit(bc'.msg.paths[i]))
              => cache' = cache]_vars

\* The notification of a flush of a.md alone is being sent, and the entry
\* the cache had when the flush began is still there.
C40_Witness ==
    /\ bc.state = "sending"
    /\ bc.msg = FilesChanged({P_a})
    /\ staleKeys # {}
    /\ staleKeys \subseteq DOMAIN cache

\* C39: a handler that has ended, for whatever reason, has left no entry
\* in active_connections, and a rejected origin was never registered.
C39_TerminatedNotRegistered ==
    \A o \in Observers :
        handler[o] \in {"closed", "rejected"} => o \notin Range(active_connections)

\* C37: whenever the watch loop waits for the next event, the pending
\* set (of either watcher) is empty exactly when no batch start time is
\* set, a non-empty pending set has the one quiet timer asleep, and the
\* loop and the timer are never both inside a flush.
C37_WaitingInvariant ==
    /\ main = "awatch" =>
         /\ (pending = {} /\ mpending = <<>>) <=> batch_elapsed = None
         /\ (pending # {} \/ mpending # <<>>) => quiet_task.state = "sleeping"
    /\ ~(main = "flushing" /\ quiet_task.state = "flushing")

\* The loop waits with a.md pending after an event cancelled the timer's
\* flush of the batch before.
C37_Witness ==
    /\ main = "awatch"
    /\ pending = {P_a}
    /\ bc.state = "cancelled"
    /\ quiet_task.state = "sleeping"

\* C32: an event with no relevant path changes nothing in the watcher:
\* the quiet timer, while it sleeps, has run for exactly the time since
\* the latest relevant event, so no other event has re-armed it.
C32_IrrelevantIgnored ==
    (quiet_task.state = "sleeping" /\ burst.phase = "open")
        => quiet_task.left = QUIET_PERIOD_S - burst.gap

\* C38: no accepted path is lost between the pending set and the
\* notifications: when a flush is over, every path of the snapshot it took
\* is listed in a message it handed to broadcast for the path's
\* repository.
C38_SnapshotDelivered ==
    FlushOver =>
        \A i \in 1..Len(flushed) : \A p \in flushed[i].paths :
            \E k \in 1..Len(emitted) :
                /\ emitted[k].repo = flushed[i].repo
                /\ p \in Range(emitted[k].paths)

\* C31: once the watcher task has been cancelled no flush happens: the
\* pending set is never emptied, the quiet timer never wakes into a flush
\* and no broadcast begins.
C31_NoFlushAfterShutdown ==
    [][main = "cancelled" =>
          /\ pending' = pending
          /\ quiet_task.state = "sleeping" => quiet_task'.state = "sleeping"
          /\ bc'.state = "sending" => bc.state = "sending"]_vars

\* C33: under a root that only contains repositories, the change of
\* A/.git/index that a commit in A makes is accepted and its flush empties
\* the cache: once A/a.md is committed and the marker is no longer
\* pending, the cache holds no answer for the root that lacks the commit.
C33_ChildMarkerInvalidates ==
    (/\ files[2].log
     /\ P_childindex \notin pending
     /\ CacheKey(ROOT, MaxLimit, DEFAULT_EXTENSIONS) \in DOMAIN cache) =>
        \E r \in RecordsAt(cache[CacheKey(ROOT, MaxLimit, DEFAULT_EXTENSIONS)].data, F_Aa) :
            ~r.untracked

\* C34: every record of a result names a file whose name ends, whatever
\* the case, in one of the extensions asked for, and when the result is
\* not cut at the limit every never-added file below the root that ends
\* so and lies under no hidden or excluded directory has a record.
C34_RequestedExtensions ==
    Done("get_recently_changed_files") =>
        /\ \A i \in 1..Len(call.ret) :
              MatchesExt(call.ret[i].path, call.args.extensions)
        /\ Len(call.ret) < call.args.limit =>
              \A f \in FileIds :
                  (/\ IsBelow(FilePath[f], call.args.repo_path)
                   /\ MatchesExt(FilePath[f], call.args.extensions)
                   /\ WalkReaches(RelativeTo(FilePath[f], call.args.repo_path),
                                  exclude_dirs)
                   /\ ~files[f].index /\ ~files[f].log) =>
                      RecordsAt(call.ret,
                                RelativeTo(FilePath[f], call.args.repo_path)) # {}

\* C36: child repositories are looked for one level deep only: in every
\* call the one service that hands work to child services is the service
\* the call was made on, never the service of a child.
C36_OneLevelDeep ==
    Done("_get_recent_files_from_child_repos") =>
        \A d \in call.ret : d[1] = call.args.repo_path

\* File f was never added to a repository.
NeverAdded(f) == ~files[f].index /\ ~files[f].log

\* C35: when the walks of some top-level directories raise, the call
\* still returns, and a result that is not cut at the limit has a record
\* without git information for every never-added document at the top
\* level or under a directory whose walk did not raise, none for a
\* never-added document under a directory whose walk raised, and a
\* tracked record for every committed document in the index.
C35_WalkFailureIsolated ==
    (Done("_walk_subdir") /\ Len(call.ret) < call.args.limit) =>
        \A f \in {1, 2, 3} :
            /\ (NeverAdded(f) /\ TopDirOf[f] \notin call.args.failed_dirs) =>
                   \E r \in RecordsAt(call.ret, FilePath[f]) : Bare(r)
            /\ (NeverAdded(f) /\ TopDirOf[f] \in call.args.failed_dirs) =>
                   RecordsAt(call.ret, FilePath[f]) = {}
            /\ (files[f].index /\ files[f].log) =>
                   \E r \in RecordsAt(call.ret, FilePath[f]) : ~r.untracked

\* The walk of A raised with A/a.md never added: the result has top.md
\* and B/b.MD, both never added, and nothing for A/a.md.
C35_Witness ==
    /\ Done("_walk_subdir")
    /\ call.args.failed_dirs = {D_A}
    /\ NeverAdded(1) /\ NeverAdded(2) /\ NeverAdded(3)
    /\ PathsOf(call.ret) = <<F_top, F_Bb>>

====
